---- MODULE Spec2Model ----
(***************************************************************************)
(* Grid partition and POI reconciliation scripts                           *)
(* (kaka0913/watnow-hack-team8-backend, script/*.py).                      *)
(*                                                                         *)
(* The persistent store is the pair of tables grid_cells and pois, reached *)
(* through single select / insert / upsert / update / delete calls.  Every *)
(* store call is one atomic step; whatever a script does between two store *)
(* calls is local to that script and is folded into the step that follows. *)
(* The store itself enforces only the primary keys (grid_cells.id is       *)
(* store-generated, pois.id is the conflict key of the upserts); it does   *)
(* not enforce uniqueness of grid_cells.geohash nor the reference from     *)
(* pois.grid_cell_id, which is why check_grid_cell_duplicates.py exists.   *)
(***************************************************************************)
EXTENDS Integers, Sequences, FiniteSets, TLC

(***************************************************************************)
(* Bounds of the model                                                     *)
(***************************************************************************)
MaxCellId == 3        \* ids the store hands out to grid_cells rows
MaxTime == 2          \* largest created_at timestamp
MaxFaults == 1        \* store calls that may fail in one behaviour
MaxCategories == 2    \* longest category list of one fetched record

MaxResults == 2       \* places one unit of work gets from the place search
MaxRuns == 2          \* starts of one script
MaxCsvRows == 2       \* rows of the CSV file
MaxPlaces == 2        \* places one search of one type returns

Geohashes == {"g1", "g2"}
PlaceIds == {"p1", "p2"}
Callers == {"w1", "w2"}       \* scripts calling the store functions directly
KProcs == {"k"}               \* runs of kyoto_plan3_migration.py
MProcs == {"m"}               \* runs of pois_migration_script.py
RProcs == {"r"}               \* runs of check_grid_cell_duplicates.py
UProcs == {"u"}               \* runs of upload_kyoto_horror_spots.py
Procs == Callers \cup KProcs \cup MProcs \cup RProcs \cup UProcs

MAX_RETRIES == 3      \* the ceiling of both place searches
MIN_RATING == 35      \* 3.5, in tenths
PARK_MIN_RATING == 30 \* 3.0: the threshold of the type 'park'

SAVE_EVERY == 5       \* the progress file is rewritten every fifth geohash

Falsy == 0            \* None / False: every caller only tests "if not id"

(***************************************************************************)
(* State                                                                   *)
(***************************************************************************)
VARIABLES
    grid_cells,       \* table grid_cells: rows [id, geohash, created_at]
    next_cell_id,     \* the id the store generates for the next grid_cells row
    pois,             \* table pois
    faults,           \* number of store calls that raised so far
    sequential,       \* TRUE: operations of different scripts never overlap
    pc,               \* position of every script
    cur_geohash,      \* the geohash argument / loop variable of a script
    ret,              \* value returned by save_grid_cell
    wanted,           \* the geohashes argument of ensure_grid_cells_exist
    geohash_to_id_map,\* value returned by ensure_grid_cells_exist
    op_err,           \* the running operation met a store error
    before,           \* rows per geohash when the running operation started
    calls,            \* the last two completed get-or-create calls
    hash_order,       \* iteration order of a Python set in this run
    merge_in,         \* three POI records sharing one identifier
    fold,             \* the fold of the category merge that is under way
    seen_sets,        \* the category sets the finished folds produced
    api_places,       \* (place id, place type) pairs the place search can return
    batch,            \* POI records a script still has to write
    saves,            \* the last two completed POI saves
    written,          \* per place id, the categories it was ever written with
    geohash_list,     \* config['geohash_list'] of the chunked job
    chunk_size,       \* config['chunk_size']
    plan3_progress,   \* the progress file of the chunked job
    chunk_index,      \* loop variable of main
    geohash_in_chunk, \* loop variable i of process_chunk
    runs,             \* how often a script was started
    resumed,          \* the running job continued from the progress file
    processed,        \* geohashes some run fetched and saved
    unit_status,      \* per geohash, how its last processing ended
    progress_file,    \* PROGRESS_FILE of pois_migration_script.py
    all_geohashes,    \* the target geohashes of the configured area
    remaining_geohashes, \* the targets the run has to process
    processed_geohashes, \* the completed set the run keeps in memory
    unit_index,       \* position of the run in remaining_geohashes
    loaded,           \* the completed set the run started from
    fetched,          \* geohashes the run searched places for
    upserted,         \* geohashes the run wrote POIs for
    duplicates,       \* the plan of the repair: one entry per cell to remove
    dup_index,        \* the entry of the plan the repair is working on
    at_scan,          \* both tables as they were when the repair scanned
    confirm_input,    \* the answer to the question whether to repair
    repair_run,       \* which run of the repair script this is
    after_repair,     \* the tables when the previous repair run ended
    api_names,        \* the names the place search reports for a place
    csv_rows,         \* the rows of CSV_FILE
    csv_index,        \* the row upload_kyoto_horror_spots.py is working on
    next_uuid,        \* how many uuid4() values were drawn
    after_upload,     \* the tables when the first upload run ended
    TEST_MODE,        \* '--test-mode' in sys.argv
    totals,           \* total_added, total_skipped, total_errors of main
    search_results,   \* per searched type, the places fetch_places returned
    filtered_batch,   \* pois_to_insert: the batch built from them
    fetch_calls       \* per script, the place search it is in

storeVars == <<grid_cells, next_cell_id, pois, faults>>
cellVars == <<cur_geohash, ret, wanted, geohash_to_id_map, op_err, before,
              calls>>
mergeVars == <<hash_order, merge_in, fold, seen_sets>>
saveVars == <<batch, saves, written>>
repairVars == <<duplicates, dup_index, at_scan, confirm_input, repair_run,
                after_repair>>
uploadVars == <<api_names, csv_rows, csv_index, next_uuid, after_upload,
                TEST_MODE, totals>>
filterVars == <<search_results, filtered_batch, fetch_calls>>
kyotoVars == <<geohash_list, chunk_size, plan3_progress, chunk_index,
               geohash_in_chunk, runs, resumed, processed, unit_status>>
migVars == <<progress_file, all_geohashes, remaining_geohashes,
             processed_geohashes, unit_index, loaded, fetched, upserted>>
notCell == <<sequential, repairVars, uploadVars, filterVars, mergeVars,
             api_places,
             saveVars,
             kyotoVars, migVars>>
vars == <<grid_cells, next_cell_id, pois, faults, sequential, pc, cur_geohash,
          ret, wanted, geohash_to_id_map, op_err, before, calls, hash_order,
          merge_in, fold, seen_sets, api_places, batch, saves, written,
          geohash_list, chunk_size, plan3_progress, chunk_index,
          geohash_in_chunk, runs, resumed, processed, unit_status,
          progress_file, all_geohashes, remaining_geohashes,
          processed_geohashes, unit_index, loaded, fetched, upserted,
          duplicates, dup_index, at_scan, confirm_input, repair_run,
          after_repair, api_names, csv_rows, csv_index, next_uuid,
          after_upload, TEST_MODE, totals, search_results, filtered_batch,
          fetch_calls>>

(***************************************************************************)
(* The store                                                               *)
(***************************************************************************)
CellIds == 1..MaxCellId

CellRows == [id : CellIds, geohash : Geohashes, created_at : 0..MaxTime]

\* select('id').eq('geohash', g)
CellsByGeohash(g) == {c \in grid_cells : c.geohash = g}

\* select('id').eq('id', i)
CellsById(i) == {c \in grid_cells : c.id = i}

Now ==
    IF grid_cells = {} THEN 0
    ELSE CHOOSE t \in {c.created_at : c \in grid_cells} :
             \A c \in grid_cells : c.created_at <= t

\* timestamps a row inserted now can get: not before any row already stored
InsertTimes == {t \in 0..MaxTime : t >= Now /\ t <= Now + 1}

\* a store call may raise; MaxFaults bounds how often
CanFail == faults < MaxFaults

\* Scheduling: a script is quiescent between two of its operations
Stopped == {"idle", "done", "aborted", "stopped", "dead"}

Quiescent(q) == pc[q] \in Stopped \cup {"k_loop", "m_loop"}

CanStep(p) == sequential => \A q \in Procs \ {p} : Quiescent(q)

(***************************************************************************)
(* save_grid_cell: select by geohash, insert when nothing was found        *)
(***************************************************************************)
ZeroCount == [g \in Geohashes |-> 0]

CountRows == [g \in Geohashes |-> Cardinality(CellsByGeohash(g))]

\* a caller starts save_grid_cell(g)
CallSaveGridCell(p, g) ==
    /\ p \in Callers
    /\ pc[p] = "idle"
    /\ CanStep(p)
    /\ pc' = [pc EXCEPT ![p] = "sgc_select"]
    /\ cur_geohash' = [cur_geohash EXCEPT ![p] = g]
    /\ op_err' = [op_err EXCEPT ![p] = FALSE]
    /\ before' = [before EXCEPT ![p] = CountRows]
    /\ UNCHANGED <<storeVars, notCell, ret, wanted, geohash_to_id_map,
                   calls>>

\* (fault of the code: the existing row is never looked up)
SaveGridCellSelectBlind(p) ==
    /\ pc[p] = "sgc_select"
    /\ CanStep(p)
    /\ pc' = [pc EXCEPT ![p] = "sgc_insert"]
    /\ UNCHANGED <<storeVars, notCell, cellVars>>

\* existing = select('id').eq('geohash', geohash); existing.data[0]['id']
SaveGridCellSelect(p) ==
    /\ pc[p] = "sgc_select"
    /\ CanStep(p)
    /\ \/ /\ CanFail                       \* the select raises
          /\ faults' = faults + 1
          /\ ret' = [ret EXCEPT ![p] = Falsy]
          /\ op_err' = [op_err EXCEPT ![p] = TRUE]
          /\ pc' = [pc EXCEPT ![p] = "sgc_ret"]
       \/ /\ CellsByGeohash(cur_geohash[p]) # {}
          /\ \E c \in CellsByGeohash(cur_geohash[p]) :   \* data[0]: no ORDER BY
                 ret' = [ret EXCEPT ![p] = c.id]
          /\ pc' = [pc EXCEPT ![p] = "sgc_ret"]
          /\ UNCHANGED <<faults, op_err>>
       \/ /\ CellsByGeohash(cur_geohash[p]) = {}
          /\ pc' = [pc EXCEPT ![p] = "sgc_insert"]
          /\ UNCHANGED <<faults, op_err, ret>>
    /\ UNCHANGED <<grid_cells, next_cell_id, pois, notCell, cur_geohash,
                   wanted, geohash_to_id_map, before, calls>>

\* result = insert(grid_cell_data); result.data[0]['id']
SaveGridCellInsert(p) ==
    /\ pc[p] = "sgc_insert"
    /\ CanStep(p)
    /\ \/ /\ CanFail                       \* the insert raises / returns no row
          /\ faults' = faults + 1
          /\ ret' = [ret EXCEPT ![p] = Falsy]
          /\ op_err' = [op_err EXCEPT ![p] = TRUE]
          /\ UNCHANGED <<grid_cells, next_cell_id>>
       \/ /\ next_cell_id <= MaxCellId
          /\ \E t \in InsertTimes :
                 grid_cells' = grid_cells \cup
                     {[id |-> next_cell_id, geohash |-> cur_geohash[p],
                       created_at |-> t]}
          /\ next_cell_id' = next_cell_id + 1
          /\ ret' = [ret EXCEPT ![p] = next_cell_id]
          /\ UNCHANGED <<faults, op_err>>
    /\ pc' = [pc EXCEPT ![p] = "sgc_ret"]
    /\ UNCHANGED <<pois, notCell, cur_geohash, wanted, geohash_to_id_map,
                   before, calls>>

(***************************************************************************)
(* ensure_grid_cells_exist: bulk get-or-create, returns geohash -> id      *)
(***************************************************************************)
NoMap == [g \in Geohashes |-> Falsy]     \* None, and the dict without keys

\* the ids a bulk insert gives to the geohashes in M, in list order
IdAssignments(M) ==
    {f \in [M -> next_cell_id..(next_cell_id + Cardinality(M) - 1)] :
        \A a, b \in M : a # b => f[a] # f[b]}

\* {cell['geohash']: cell['id'] for cell in response.data}: one id per
\* geohash that has a row (the last row of the result wins), none otherwise
MapsOf(L) ==
    {m \in [Geohashes -> CellIds \cup {Falsy}] :
        \A g \in Geohashes :
           IF g \in L /\ CellsByGeohash(g) # {}
           THEN \E c \in CellsByGeohash(g) : m[g] = c.id
           ELSE m[g] = Falsy}

\* a caller starts ensure_grid_cells_exist(supabase, L)
CallEnsureGridCells(p, L) ==
    /\ p \in Callers
    /\ pc[p] = "idle"
    /\ CanStep(p)
    /\ L # {}
    /\ pc' = [pc EXCEPT ![p] = "ege_select_all"]
    /\ wanted' = [wanted EXCEPT ![p] = L]
    /\ op_err' = [op_err EXCEPT ![p] = FALSE]
    /\ before' = [before EXCEPT ![p] = CountRows]
    /\ UNCHANGED <<storeVars, notCell, cur_geohash, ret, geohash_to_id_map,
                   calls>>

\* the operation returns None after a store error
EnsureFails(p) ==
    /\ CanFail
    /\ faults' = faults + 1
    /\ geohash_to_id_map' = [geohash_to_id_map EXCEPT ![p] = NoMap]
    /\ op_err' = [op_err EXCEPT ![p] = TRUE]
    /\ pc' = [pc EXCEPT ![p] = "ege_ret"]
    /\ UNCHANGED <<grid_cells, next_cell_id>>

\* existing_response = select('id, geohash') (only its length is printed)
EnsureSelectAll(p) ==
    /\ pc[p] = "ege_select_all"
    /\ CanStep(p)
    /\ \/ EnsureFails(p)
       \/ /\ pc' = [pc EXCEPT ![p] = "ege_upsert"]
          /\ UNCHANGED <<grid_cells, next_cell_id, faults, geohash_to_id_map,
                         op_err>>
    /\ UNCHANGED <<pois, notCell, cur_geohash, ret, wanted, before, calls>>

\* upsert(cells_to_insert, on_conflict='geohash'): one statement, a geohash
\* that has a row keeps it, every other geohash of the list gets a new row
EnsureUpsert(p) ==
    /\ pc[p] = "ege_upsert"
    /\ CanStep(p)
    /\ \/ EnsureFails(p)
       \/ LET M == {g \in wanted[p] : CellsByGeohash(g) = {}} IN
          /\ next_cell_id + Cardinality(M) - 1 <= MaxCellId
          /\ \E f \in IdAssignments(M), t \in InsertTimes :
                 grid_cells' = grid_cells \cup
                     {[id |-> f[g], geohash |-> g, created_at |-> t] : g \in M}
          /\ next_cell_id' = next_cell_id + Cardinality(M)
          /\ pc' = [pc EXCEPT ![p] = "ege_select_in"]
          /\ UNCHANGED <<faults, geohash_to_id_map, op_err>>
    /\ UNCHANGED <<pois, notCell, cur_geohash, ret, wanted, before, calls>>

\* response = select('id, geohash').in_('geohash', geohashes)
EnsureSelectIn(p) ==
    /\ pc[p] = "ege_select_in"
    /\ CanStep(p)
    /\ \/ EnsureFails(p)
       \/ /\ \E m \in MapsOf(wanted[p]) :
                 geohash_to_id_map' = [geohash_to_id_map EXCEPT ![p] = m]
          /\ pc' = [pc EXCEPT ![p] = "ege_ret"]
          /\ UNCHANGED <<grid_cells, next_cell_id, faults, op_err>>
    /\ UNCHANGED <<pois, notCell, cur_geohash, ret, wanted, before, calls>>

\* the same select when the response does not hold a row for every geohash
\* asked for (the API caps the rows of one response): missing_geohashes is
\* not empty, the warning is printed, the map is returned as it is
EnsureSelectInCapped(p) ==
    /\ pc[p] = "ege_select_in"
    /\ CanStep(p)
    /\ \E L \in SUBSET wanted[p] :
          /\ L # {} /\ L # wanted[p]
          /\ \E m \in MapsOf(L) :
                geohash_to_id_map' = [geohash_to_id_map EXCEPT ![p] = m]
    /\ pc' = [pc EXCEPT ![p] = "ege_ret"]
    /\ UNCHANGED <<grid_cells, next_cell_id, faults, op_err>>
    /\ UNCHANGED <<pois, notCell, cur_geohash, ret, wanted, before, calls>>

(***************************************************************************)
(* The callers record what the two functions returned                      *)
(***************************************************************************)
\* (calls "in a row" exist only where operations do not overlap)
Remember(e) ==
    IF ~sequential THEN calls
    ELSE IF Len(calls) = 2 THEN <<calls[2], e>> ELSE Append(calls, e)

\* what a call did for the geohashes it covers
CallRecord(p, covers, ids) ==
    [covers |-> covers,
     ids |-> [g \in Geohashes |-> IF g \in covers THEN ids[g] ELSE Falsy],
     ok |-> ~op_err[p],
     before |-> [g \in Geohashes |-> IF g \in covers THEN before[p][g] ELSE 0]]

\* the locals of a finished call go out of scope
ForgetLocals(p) ==
    /\ cur_geohash' = [cur_geohash EXCEPT ![p] = "g1"]
    /\ ret' = [ret EXCEPT ![p] = Falsy]
    /\ wanted' = [wanted EXCEPT ![p] = {}]
    /\ geohash_to_id_map' = [geohash_to_id_map EXCEPT ![p] = NoMap]
    /\ op_err' = [op_err EXCEPT ![p] = FALSE]
    /\ before' = [before EXCEPT ![p] = ZeroCount]

SaveGridCellReturns(p) ==
    /\ p \in Callers
    /\ pc[p] = "sgc_ret"
    /\ CanStep(p)
    /\ calls' = Remember(CallRecord(p, {cur_geohash[p]},
                                    [NoMap EXCEPT ![cur_geohash[p]] = ret[p]]))
    /\ pc' = [pc EXCEPT ![p] = "idle"]
    /\ ForgetLocals(p)
    /\ UNCHANGED <<storeVars, notCell>>

EnsureGridCellsReturns(p) ==
    /\ p \in Callers
    /\ pc[p] = "ege_ret"
    /\ CanStep(p)
    /\ calls' = Remember(CallRecord(p, wanted[p], geohash_to_id_map[p]))
    /\ pc' = [pc EXCEPT ![p] = "idle"]
    /\ ForgetLocals(p)
    /\ UNCHANGED <<storeVars, notCell>>

(***************************************************************************)
(* Category merge of POI records sharing one identifier                    *)
(***************************************************************************)
\* place type -> stored category label (three of the fourteen entries)
POI_TYPES == [cafe |-> "kafe", park |-> "koen", museum |-> "hakubutsukan"]

Labels == {POI_TYPES[t] : t \in DOMAIN POI_TYPES}

\* set(list)
Range(s) == {s[i] : i \in DOMAIN s}

\* orders in which a run can iterate over a set of labels
HashOrders ==
    {s \in [1..Cardinality(Labels) -> Labels] :
        \A i, j \in DOMAIN s : i # j => s[i] # s[j]}

\* list(set): the elements in the iteration order of this run
ListOf(S) == SelectSeq(hash_order, LAMBDA c : c \in S)

\* (fault of the code: the incoming categories replace the stored ones)
MergeCategoriesOverwrite(existing_categories, new_categories) ==
    new_categories

\* list(existing_categories.union(new_categories))
MergeCategories(existing_categories, new_categories) ==
    ListOf(Range(existing_categories) \cup Range(new_categories))

\* poi_dict[place_id]['categories'] = ...: the record seen first keeps its
\* other fields
MergePoi(existing, poi) ==
    [existing EXCEPT
        !.categories = MergeCategories(existing.categories, poi.categories)]

NoPoi == [id |-> "none", categories |-> <<>>, grid_cell_id |-> Falsy]

NoFold == [stage |-> "idle", ops |-> <<>>, left |-> TRUE, acc |-> NoPoi]

\* category lists a fetched record can carry
CategoryLists ==
    {s \in UNION {[1..n -> Labels] : n \in 1..MaxCategories} :
        \A i, j \in DOMAIN s : i # j => s[i] # s[j]}

\* a fold over the three records starts, in some order and grouping
MergeBegin(i, j, k, left) ==
    /\ fold.stage = "idle"
    /\ {i, j, k} = {1, 2, 3}
    /\ fold' = [stage |-> "inner",
                ops |-> <<merge_in[i], merge_in[j], merge_in[k]>>,
                left |-> left, acc |-> NoPoi]
    /\ UNCHANGED <<storeVars, sequential, repairVars, uploadVars, filterVars,
                   pc, cellVars,
                   hash_order, merge_in,
                   seen_sets, api_places, saveVars, kyotoVars, migVars>>

\* the inner merge: (x, y) of ((x, y), z), or (y, z) of (x, (y, z))
MergeInner ==
    /\ fold.stage = "inner"
    /\ fold' = [fold EXCEPT
                   !.stage = "outer",
                   !.acc = IF fold.left
                           THEN MergePoi(fold.ops[1], fold.ops[2])
                           ELSE MergePoi(fold.ops[2], fold.ops[3])]
    /\ UNCHANGED <<storeVars, sequential, repairVars, uploadVars, filterVars,
                   pc, cellVars,
                   hash_order, merge_in,
                   seen_sets, api_places, saveVars, kyotoVars, migVars>>

\* the outer merge gives the final record of the fold
MergeOuter ==
    /\ fold.stage = "outer"
    /\ LET final == IF fold.left
                    THEN MergePoi(fold.acc, fold.ops[3])
                    ELSE MergePoi(fold.ops[1], fold.acc)
       IN seen_sets' = seen_sets \cup
              {[left |-> fold.left, categories |-> Range(final.categories)]}
    /\ fold' = NoFold
    /\ UNCHANGED <<storeVars, sequential, repairVars, uploadVars, filterVars,
                   pc, cellVars,
                   hash_order, merge_in,
                   api_places, saveVars, kyotoVars, migVars>>

(***************************************************************************)
(* Table pois                                                              *)
(***************************************************************************)
NoCategory == "none"          \* a column the writer did not set

\* the categories a row carries, in whichever column its writer used
StoredCategories(row) ==
    Range(row.categories) \cup
    (IF row.category = NoCategory THEN {} ELSE {row.category})

\* select(...).eq('id', id)
PoisById(id) == {r \in pois : r.id = id}

\* (fault of the code: a name the row has already is kept)
RowOfFirstName(poi, old) ==
    [id |-> poi.id,
     categories |-> IF "categories" \in DOMAIN poi THEN poi.categories
                    ELSE IF old = {} THEN <<>>
                    ELSE (CHOOSE r \in old : TRUE).categories,
     category |-> IF "category" \in DOMAIN poi THEN poi.category
                  ELSE IF old = {} THEN NoCategory
                  ELSE (CHOOSE r \in old : TRUE).category,
     grid_cell_id |-> poi.grid_cell_id,
     name |-> IF old # {} /\ (CHOOSE r \in old : TRUE).name # ""
              THEN (CHOOSE r \in old : TRUE).name
              ELSE IF "name" \in DOMAIN poi THEN poi.name ELSE "",
     url |-> IF "url" \in DOMAIN poi THEN poi.url
             ELSE IF old = {} THEN ""
             ELSE (CHOOSE r \in old : TRUE).url]

\* the row an upsert or insert of record poi leaves: the columns of the
\* record are set, the others keep their value (or their default)
RowOf(poi, old) ==
    [id |-> poi.id,
     categories |-> IF "categories" \in DOMAIN poi THEN poi.categories
                    ELSE IF old = {} THEN <<>>
                    ELSE (CHOOSE r \in old : TRUE).categories,
     category |-> IF "category" \in DOMAIN poi THEN poi.category
                  ELSE IF old = {} THEN NoCategory
                  ELSE (CHOOSE r \in old : TRUE).category,
     grid_cell_id |-> poi.grid_cell_id,
     name |-> IF "name" \in DOMAIN poi THEN poi.name
              ELSE IF old = {} THEN ""
              ELSE (CHOOSE r \in old : TRUE).name,
     url |-> IF "url" \in DOMAIN poi THEN poi.url
             ELSE IF old = {} THEN ""
             ELSE (CHOOSE r \in old : TRUE).url]

\* (fault of the code: the write adds a row and keeps the conflicting one)
UpsertAppend(table, poi) ==
    table \cup {RowOf(poi, {})}

\* upsert(poi, on_conflict='id')
Upsert(table, poi) ==
    LET old == {r \in table : r.id = poi.id}
    IN (table \ old) \cup {RowOf(poi, old)}

\* the categories a write of record poi carries
WrittenCategories(poi) ==
    IF "categories" \in DOMAIN poi THEN Range(poi.categories)
    ELSE {poi.category}

NoteWritten(w, poi) ==
    [w EXCEPT ![poi.id] = w[poi.id] \cup WrittenCategories(poi)]

(***************************************************************************)
(* save_pois_to_db: group by id, then select and insert/upsert every POI   *)
(***************************************************************************)
Front(q) == SubSeq(q, 1, Len(q) - 1)

\* poi_dict.values(): one record per id, categories merged, first-seen order
RECURSIVE BatchMerge(_)
BatchMerge(poi_list) ==
    IF poi_list = <<>> THEN <<>>
    ELSE LET poi_dict == BatchMerge(Front(poi_list))
             poi == poi_list[Len(poi_list)]
             hit == {i \in DOMAIN poi_dict : poi_dict[i].id = poi.id}
         IN IF hit # {}
            THEN [i \in DOMAIN poi_dict |->
                    IF i \in hit THEN MergePoi(poi_dict[i], poi)
                    ELSE poi_dict[i]]
            ELSE Append(poi_dict, poi)

\* what a save did to the rows of the ids of its payload
SaveRecord(p, payload, table) ==
    [payload |-> payload,
     done |-> TRUE,
     ok |-> ~op_err[p],
     rows |-> [i \in PlaceIds |->
                 Cardinality({r \in table : r.id = i})],
     categories |-> [i \in PlaceIds |->
                 UNION {StoredCategories(r) : r \in {x \in table : x.id = i}}]]

\* a save that was called and has not returned yet
PendingSave(payload) ==
    [payload |-> payload, done |-> FALSE, ok |-> FALSE,
     rows |-> [i \in PlaceIds |-> 0], categories |-> [i \in PlaceIds |-> {}]]

RememberSave(e) ==
    IF ~sequential THEN saves
    ELSE IF Len(saves) = 2 THEN <<saves[2], e>> ELSE Append(saves, e)

\* the loop of save_pois_to_db goes on with the next record, or returns
NextPoi(p) ==
    /\ batch' = [batch EXCEPT ![p] = Tail(batch[p])]
    /\ pc' = [pc EXCEPT ![p] = IF Len(batch[p]) = 1 THEN "spd_ret"
                               ELSE "spd_select"]
    /\ processed' = IF p \in KProcs /\ Len(batch[p]) = 1
                    THEN processed \cup {cur_geohash[p]} ELSE processed

\* except Exception: the record is not saved, the loop goes on
PoiSaveFails(p) ==
    /\ op_err' = [op_err EXCEPT ![p] = TRUE]
    /\ NextPoi(p)
    /\ UNCHANGED <<pois, written>>

\* existing = select('id, categories').eq('id', poi['id'])
SavePoisSelect(p) ==
    /\ pc[p] = "spd_select"
    /\ CanStep(p)
    /\ LET poi == Head(batch[p])
           existing == PoisById(poi.id)
       IN \/ /\ CanFail
             /\ faults' = faults + 1
             /\ PoiSaveFails(p)
          \/ /\ existing # {}
             /\ \E row \in existing :
                  batch' = [batch EXCEPT ![p][1].categories =
                      MergeCategories(row.categories, poi.categories)]
             /\ pc' = [pc EXCEPT ![p] = "spd_upsert"]
             /\ UNCHANGED <<pois, faults, op_err, written, processed>>
          \/ /\ existing = {}
             /\ pc' = [pc EXCEPT ![p] = "spd_insert"]
             /\ UNCHANGED <<pois, faults, op_err, written, batch, processed>>
    /\ UNCHANGED <<grid_cells, next_cell_id, sequential, repairVars,
                   uploadVars, filterVars,
                   cur_geohash, ret,
                   wanted, geohash_to_id_map, before, calls, mergeVars,
                   api_places, saves, geohash_list, chunk_size, plan3_progress,
                   chunk_index, geohash_in_chunk, runs, resumed, unit_status,
                   migVars>>

\* result = upsert(poi, on_conflict='id', count='exact')
SavePoisUpsert(p) ==
    /\ pc[p] = "spd_upsert"
    /\ CanStep(p)
    /\ LET poi == Head(batch[p])
       IN \/ /\ CanFail
             /\ faults' = faults + 1
             /\ PoiSaveFails(p)
          \/ /\ pois' = Upsert(pois, poi)
             /\ written' = NoteWritten(written, poi)
             /\ NextPoi(p)
             /\ UNCHANGED <<faults, op_err>>
    /\ UNCHANGED <<grid_cells, next_cell_id, sequential, repairVars,
                   uploadVars, filterVars,
                   cur_geohash, ret,
                   wanted, geohash_to_id_map, before, calls, mergeVars,
                   api_places, saves, geohash_list, chunk_size, plan3_progress,
                   chunk_index, geohash_in_chunk, runs, resumed, unit_status,
                   migVars>>

\* result = insert(poi): the primary key rejects an id that has a row by now
SavePoisInsert(p) ==
    /\ pc[p] = "spd_insert"
    /\ CanStep(p)
    /\ LET poi == Head(batch[p])
       IN \/ /\ CanFail
             /\ faults' = faults + 1
             /\ PoiSaveFails(p)
          \/ /\ PoisById(poi.id) # {}
             /\ PoiSaveFails(p)
             /\ UNCHANGED faults
          \/ /\ PoisById(poi.id) = {}
             /\ pois' = pois \cup {RowOf(poi, {})}
             /\ written' = NoteWritten(written, poi)
             /\ NextPoi(p)
             /\ UNCHANGED <<faults, op_err>>
    /\ UNCHANGED <<grid_cells, next_cell_id, sequential, repairVars,
                   uploadVars, filterVars,
                   cur_geohash, ret,
                   wanted, geohash_to_id_map, before, calls, mergeVars,
                   api_places, saves, geohash_list, chunk_size, plan3_progress,
                   chunk_index, geohash_in_chunk, runs, resumed, unit_status,
                   migVars>>

NoProgress ==
    [status |-> "none", current_chunk |-> 0, current_geohash_in_chunk |-> 0,
     last_processed_geohash |-> "none"]

\* PROGRESS_FILE does not exist
NoFile == [exists |-> FALSE, processed_geohashes |-> {}, total_count |-> 0]

(***************************************************************************)
(* kyoto_plan3_migration.py: the chunked job                               *)
(***************************************************************************)
\* POI_TYPES.keys(), in the order of the table
TypeOrder == <<"cafe", "museum", "park">>

\* chunks[c] = all_geohashes[c*chunk_size : (c+1)*chunk_size], c from 0
Chunk(c) ==
    SubSeq(geohash_list, c * chunk_size + 1,
           IF (c + 1) * chunk_size < Len(geohash_list)
           THEN (c + 1) * chunk_size ELSE Len(geohash_list))

total_chunks == (Len(geohash_list) + chunk_size - 1) \div chunk_size

\* what the place search returns to one unit of work, all types together
FetchOutcomes ==
    {h \in SUBSET api_places : Cardinality(h) <= MaxResults}

\* poi_dict[place]['categories'] after the first n types were searched
RECURSIVE CategoriesOf(_, _, _)
CategoriesOf(place, hits, n) ==
    IF n = 0 THEN <<>>
    ELSE LET so_far == CategoriesOf(place, hits, n - 1)
             new_category == POI_TYPES[TypeOrder[n]]
         IN IF <<place, TypeOrder[n]>> \notin hits THEN so_far
            ELSE IF so_far = <<>> THEN <<new_category>>
            ELSE MergeCategories(so_far, <<new_category>>)

\* get_pois_for_geohash: one record per place id found
UnitPois(hits, grid_cell_id) ==
    {[id |-> i, categories |-> CategoriesOf(i, hits, Len(TypeOrder)),
      grid_cell_id |-> grid_cell_id] : i \in {h[1] : h \in hits}}

\* 'name': poi.get('name') / place['name']: the record carries the name
\* the search reports (it stands for rate and location as well)
Named(poi, name) ==
    IF "categories" \in DOMAIN poi
    THEN [id |-> poi.id, categories |-> poi.categories,
          grid_cell_id |-> poi.grid_cell_id, name |-> name]
    ELSE [id |-> poi.id, category |-> poi.category,
          grid_cell_id |-> poi.grid_cell_id, name |-> name]

NamedAll(poi_list, name) ==
    [i \in DOMAIN poi_list |-> Named(poi_list[i], name)]

\* the lists that hold every element of S once
ListsOf(S) ==
    {q \in [1..Cardinality(S) -> S] :
        \A i, j \in DOMAIN q : i # j => q[i] # q[j]}

notKyoto == <<sequential, repairVars, uploadVars, filterVars, wanted,
              geohash_to_id_map,
              before,
              calls, mergeVars,
              api_places, saves, geohash_list, chunk_size, migVars>>

\* main up to the chunk loop: load_progress and the two questions
KMain(p, resume, confirm) ==
    /\ p \in KProcs
    /\ pc[p] \in Stopped
    /\ CanStep(p)
    /\ runs < MaxRuns
    /\ runs' = runs + 1
    /\ IF plan3_progress.status = "completed"
       THEN \* progress['current_chunk'] raises KeyError
            /\ pc' = [pc EXCEPT ![p] = "dead"]
            /\ UNCHANGED <<chunk_index, resumed>>
       ELSE LET found == plan3_progress.status = "running"
                start_chunk == IF found /\ resume
                               THEN plan3_progress.current_chunk + 1 ELSE 0
            IN IF start_chunk = 0 /\ ~confirm
               THEN /\ pc' = [pc EXCEPT ![p] = "aborted"]
                    /\ UNCHANGED <<chunk_index, resumed>>
               ELSE /\ pc' = [pc EXCEPT ![p] = "k_loop"]
                    /\ chunk_index' = [chunk_index EXCEPT ![p] = start_chunk]
                    /\ resumed' = (found /\ resume)
    /\ geohash_in_chunk' = [geohash_in_chunk EXCEPT ![p] = 0]
    /\ UNCHANGED <<storeVars, cur_geohash, ret, op_err, batch, written,
                   plan3_progress, processed, unit_status, notKyoto>>

\* for chunk_index ... / for i, geohash ...: the next geohash is taken up
KNextUnit(p) ==
    /\ p \in KProcs
    /\ pc[p] = "k_loop"
    /\ CanStep(p)
    /\ chunk_index[p] < total_chunks
    /\ cur_geohash' = [cur_geohash EXCEPT
           ![p] = Chunk(chunk_index[p])[geohash_in_chunk[p] + 1]]
    /\ op_err' = [op_err EXCEPT ![p] = FALSE]
    /\ pc' = [pc EXCEPT ![p] = "sgc_select"]
    /\ UNCHANGED <<storeVars, ret, batch, written, plan3_progress, chunk_index,
                   geohash_in_chunk, runs, resumed, processed, unit_status,
                   notKyoto>>

\* after the last chunk: save_progress({'status': 'completed', ...})
KFinish(p) ==
    /\ p \in KProcs
    /\ pc[p] = "k_loop"
    /\ CanStep(p)
    /\ chunk_index[p] >= total_chunks
    /\ plan3_progress' = [NoProgress EXCEPT !.status = "completed"]
    /\ pc' = [pc EXCEPT ![p] = "done"]
    /\ UNCHANGED <<storeVars, cur_geohash, ret, op_err, batch, written,
                   chunk_index, geohash_in_chunk, runs, resumed, processed,
                   unit_status, notKyoto>>

\* get_pois_for_geohash after save_grid_cell returned, and the grouping at
\* the head of save_pois_to_db
KFetch(p) ==
    /\ p \in KProcs
    /\ pc[p] = "sgc_ret"
    /\ CanStep(p)
    /\ IF ret[p] = Falsy
       THEN batch' = [batch EXCEPT ![p] = <<>>]
       ELSE \E hits \in FetchOutcomes :
              \E all_pois \in ListsOf(UnitPois(hits, ret[p])) :
                 \E name \in api_names :
                    batch' = [batch EXCEPT ![p] =
                                 BatchMerge(NamedAll(all_pois, name))]
    /\ pc' = [pc EXCEPT ![p] = IF batch'[p] = <<>> THEN "spd_ret"
                               ELSE "spd_select"]
    /\ processed' = IF batch'[p] = <<>> THEN processed \cup {cur_geohash[p]}
                    ELSE processed
    /\ UNCHANGED <<storeVars, cur_geohash, ret, op_err, written,
                   plan3_progress, chunk_index, geohash_in_chunk, runs,
                   resumed, unit_status, notKyoto>>

\* save_progress(progress) at the end of the loop body of process_chunk
KSaveProgress(p) ==
    /\ p \in KProcs
    /\ pc[p] = "spd_ret"
    /\ CanStep(p)
    /\ plan3_progress' =
          [status |-> "running",
           current_chunk |-> chunk_index[p],
           current_geohash_in_chunk |-> geohash_in_chunk[p] + 1,
           last_processed_geohash |-> cur_geohash[p]]
    /\ unit_status' = [unit_status EXCEPT
           ![cur_geohash[p]] = IF ret[p] = Falsy THEN "unresolved"
                               ELSE IF op_err[p] THEN "failed" ELSE "ok"]
    /\ IF geohash_in_chunk[p] + 1 = Len(Chunk(chunk_index[p]))
       THEN /\ chunk_index' = [chunk_index EXCEPT ![p] = @ + 1]
            /\ geohash_in_chunk' = [geohash_in_chunk EXCEPT ![p] = 0]
       ELSE /\ geohash_in_chunk' = [geohash_in_chunk EXCEPT ![p] = @ + 1]
            /\ UNCHANGED chunk_index
    /\ pc' = [pc EXCEPT ![p] = "k_loop"]
    /\ ret' = [ret EXCEPT ![p] = Falsy]
    /\ op_err' = [op_err EXCEPT ![p] = FALSE]
    /\ UNCHANGED <<storeVars, cur_geohash, batch, written, runs, resumed,
                   processed, notKyoto>>

\* the process is interrupted or killed: the script has no handler
KCrash(p) ==
    /\ p \in KProcs
    /\ pc[p] \notin Stopped
    /\ pc' = [pc EXCEPT ![p] = "dead"]
    /\ batch' = [batch EXCEPT ![p] = <<>>]
    /\ ret' = [ret EXCEPT ![p] = Falsy]
    /\ op_err' = [op_err EXCEPT ![p] = FALSE]
    /\ UNCHANGED <<storeVars, cur_geohash, written, plan3_progress,
                   chunk_index, geohash_in_chunk, runs, resumed, processed,
                   unit_status, notKyoto>>

(***************************************************************************)
(* pois_migration_script.py: the resumable job                             *)
(***************************************************************************)
\* categories a found place is stored under: types[0] of the place, or the
\* searched type when the place has no types
MCategories == {"cafe", "park"}

\* save_progress(processed_geohashes, all_geohashes)
SavedProgress(done) ==
    [exists |-> TRUE, processed_geohashes |-> done,
     total_count |-> Len(all_geohashes)]

\* (fault of the code: the completed geohashes are not filtered out)
RemainingAll(targets, done) ==
    targets

\* [gh for gh in all_geohashes if gh not in processed_geohashes]
Remaining(targets, done) ==
    SelectSeq(targets, LAMBDA gh : gh \notin done)

\* pois_to_insert of one geohash: the places found, each once
\* (found_place_ids), with the id the map has for the geohash
MFetchOutcomes(grid_cell_id) ==
    UNION {ListsOf({[id |-> f[1], category |-> f[2],
                     grid_cell_id |-> grid_cell_id] : f \in found}) :
           found \in {h \in SUBSET ({a[1] : a \in api_places} \X MCategories) :
                         /\ Cardinality(h) <= MaxResults
                         /\ \A x, y \in h : x[1] = y[1] => x = y}}

\* upsert(pois_to_insert, on_conflict='id'): one statement for the batch
RECURSIVE UpsertAll(_, _)
UpsertAll(table, records) ==
    IF records = <<>> THEN table
    ELSE UpsertAll(Upsert(table, Head(records)), Tail(records))

RECURSIVE NoteAllWritten(_, _)
NoteAllWritten(w, records) ==
    IF records = <<>> THEN w
    ELSE NoteAllWritten(NoteWritten(w, Head(records)), Tail(records))

notMig == <<sequential, repairVars, uploadVars, filterVars, ret, before,
            calls, mergeVars,
            api_places, saves,
            geohash_list, chunk_size, plan3_progress, chunk_index,
            geohash_in_chunk, resumed, processed, all_geohashes>>

\* main up to ensure_grid_cells_exist: load_progress, the question, the
\* remaining geohashes
MMain(p, restart) ==
    /\ p \in MProcs
    /\ pc[p] \in Stopped
    /\ CanStep(p)
    /\ runs < MaxRuns
    /\ runs' = runs + 1
    /\ LET from_file == IF progress_file.exists
                        THEN progress_file.processed_geohashes ELSE {}
           start == IF restart THEN from_file ELSE {}
           remaining == Remaining(all_geohashes, start)
       IN /\ progress_file' = IF restart THEN progress_file ELSE NoFile
          /\ processed_geohashes' = start
          /\ loaded' = start
          /\ remaining_geohashes' = remaining
          /\ IF remaining = <<>>
             THEN /\ pc' = [pc EXCEPT ![p] = "done"]
                  /\ UNCHANGED wanted
             ELSE /\ pc' = [pc EXCEPT ![p] = "ege_select_all"]
                  /\ wanted' = [wanted EXCEPT ![p] = Range(all_geohashes)]
    /\ unit_index' = 0
    /\ fetched' = {}
    /\ upserted' = {}
    /\ op_err' = [op_err EXCEPT ![p] = FALSE]
    /\ UNCHANGED <<storeVars, cur_geohash, geohash_to_id_map, batch, written,
                   unit_status, notMig>>

\* if not geohash_to_id_map: return
MAfterEnsure(p) ==
    /\ p \in MProcs
    /\ pc[p] = "ege_ret"
    /\ CanStep(p)
    /\ pc' = [pc EXCEPT ![p] = IF geohash_to_id_map[p] = NoMap THEN "aborted"
                               ELSE "m_loop"]
    /\ op_err' = [op_err EXCEPT ![p] = FALSE]
    /\ UNCHANGED <<storeVars, cur_geohash, wanted, geohash_to_id_map, batch,
                   written, runs, unit_status, migVars, notMig>>

\* the unit ends without being recorded (continue), the loop goes on
MSkipUnit(p, geohash, status) ==
    /\ unit_status' = [unit_status EXCEPT ![geohash] = status]
    /\ unit_index' = unit_index + 1
    /\ batch' = [batch EXCEPT ![p] = <<>>]
    /\ pc' = [pc EXCEPT ![p] = "m_loop"]

\* populate_pois_chunk, one geohash: the searches of all types, the
\* admitted places, and the lookup of the cell id in the map
MFetch(p) ==
    /\ p \in MProcs
    /\ pc[p] = "m_loop"
    /\ CanStep(p)
    /\ unit_index < Len(remaining_geohashes)
    /\ LET geohash == remaining_geohashes[unit_index + 1]
           grid_cell_id == geohash_to_id_map[p][geohash]
       IN /\ cur_geohash' = [cur_geohash EXCEPT ![p] = geohash]
          /\ fetched' = fetched \cup {geohash}
          /\ \E pois_to_insert \in MFetchOutcomes(grid_cell_id) :
                IF pois_to_insert = <<>>
                THEN /\ pc' = [pc EXCEPT ![p] = "m_record"]
                     /\ UNCHANGED <<batch, unit_status, unit_index>>
                ELSE IF grid_cell_id = Falsy
                THEN MSkipUnit(p, geohash, "unresolved")
                ELSE /\ pc' = [pc EXCEPT ![p] = "m_verify"]
                     /\ \E name \in api_names :
                           batch' = [batch EXCEPT ![p] =
                                        NamedAll(pois_to_insert, name)]
                     /\ UNCHANGED <<unit_status, unit_index>>
    /\ UNCHANGED <<storeVars, wanted, geohash_to_id_map, op_err, written, runs,
                   progress_file, remaining_geohashes, processed_geohashes,
                   loaded, upserted, notMig>>

\* verify_response = select('id').eq('id', grid_cell_id)
MVerify(p) ==
    /\ p \in MProcs
    /\ pc[p] = "m_verify"
    /\ CanStep(p)
    /\ \/ /\ CanFail
          /\ faults' = faults + 1
          /\ MSkipUnit(p, cur_geohash[p], "failed")
       \/ /\ CellsById(geohash_to_id_map[p][cur_geohash[p]]) = {}
          /\ MSkipUnit(p, cur_geohash[p], "unresolved")
          /\ UNCHANGED faults
       \/ /\ CellsById(geohash_to_id_map[p][cur_geohash[p]]) # {}
          /\ pc' = [pc EXCEPT ![p] = "m_upsert"]
          /\ UNCHANGED <<faults, batch, unit_status, unit_index>>
    /\ UNCHANGED <<grid_cells, next_cell_id, pois, cur_geohash, wanted,
                   geohash_to_id_map, op_err, written, runs, progress_file,
                   remaining_geohashes, processed_geohashes, loaded, fetched,
                   upserted, notMig>>

\* upsert(pois_to_insert, on_conflict='id')
MUpsert(p) ==
    /\ p \in MProcs
    /\ pc[p] = "m_upsert"
    /\ CanStep(p)
    /\ \/ /\ CanFail
          /\ faults' = faults + 1
          /\ MSkipUnit(p, cur_geohash[p], "failed")
          /\ UNCHANGED <<pois, written, upserted, saves>>
       \/ /\ pois' = UpsertAll(pois, batch[p])
          /\ written' = NoteAllWritten(written, batch[p])
          /\ upserted' = upserted \cup {cur_geohash[p]}
          /\ saves' = RememberSave(SaveRecord(p, batch[p], pois'))
          /\ pc' = [pc EXCEPT ![p] = "m_record"]
          /\ UNCHANGED <<faults, batch, unit_status, unit_index>>
    /\ UNCHANGED <<grid_cells, next_cell_id, cur_geohash, wanted,
                   geohash_to_id_map, op_err, runs, progress_file,
                   remaining_geohashes, processed_geohashes, loaded, fetched,
                   sequential, repairVars, uploadVars, filterVars, ret,
                   before, calls,
                   mergeVars,
                   api_places,
                   geohash_list, chunk_size, plan3_progress, chunk_index,
                   geohash_in_chunk, resumed, processed, all_geohashes>>

\* (fault of the code: a geohash without POIs is not added)
MRecordSkipEmpty(p) ==
    /\ p \in MProcs
    /\ pc[p] = "m_record"
    /\ CanStep(p)
    /\ processed_geohashes' =
          IF batch[p] = <<>> THEN processed_geohashes
          ELSE processed_geohashes \cup {cur_geohash[p]}
    /\ progress_file' =
          IF Cardinality(processed_geohashes') % SAVE_EVERY = 0
          THEN SavedProgress(processed_geohashes') ELSE progress_file
    /\ unit_status' = [unit_status EXCEPT ![cur_geohash[p]] =
                          IF batch[p] = <<>> THEN "empty" ELSE "ok"]
    /\ unit_index' = unit_index + 1
    /\ batch' = [batch EXCEPT ![p] = <<>>]
    /\ pc' = [pc EXCEPT ![p] = "m_loop"]
    /\ UNCHANGED <<storeVars, cur_geohash, wanted, geohash_to_id_map, op_err,
                   written, runs, remaining_geohashes, loaded, fetched,
                   upserted, notMig>>

\* processed_geohashes.add(geohash), and save_progress every fifth geohash;
\* the unit ends as "empty" when no POI was found for it
MRecord(p) ==
    /\ p \in MProcs
    /\ pc[p] = "m_record"
    /\ CanStep(p)
    /\ processed_geohashes' = processed_geohashes \cup {cur_geohash[p]}
    /\ progress_file' =
          IF Cardinality(processed_geohashes') % SAVE_EVERY = 0
          THEN SavedProgress(processed_geohashes') ELSE progress_file
    /\ unit_status' = [unit_status EXCEPT ![cur_geohash[p]] =
                          IF batch[p] = <<>> THEN "empty" ELSE "ok"]
    /\ unit_index' = unit_index + 1
    /\ batch' = [batch EXCEPT ![p] = <<>>]
    /\ pc' = [pc EXCEPT ![p] = "m_loop"]
    /\ UNCHANGED <<storeVars, cur_geohash, wanted, geohash_to_id_map, op_err,
                   written, runs, remaining_geohashes, loaded, fetched,
                   upserted, notMig>>

\* (fault of the code: the final save_progress is left out)
MFinishNoSave(p, cleanup) ==
    /\ p \in MProcs
    /\ pc[p] = "m_loop"
    /\ CanStep(p)
    /\ unit_index >= Len(remaining_geohashes)
    /\ progress_file' = IF cleanup THEN NoFile ELSE progress_file
    /\ pc' = [pc EXCEPT ![p] = "done"]
    /\ UNCHANGED <<storeVars, cur_geohash, wanted, geohash_to_id_map, op_err,
                   batch, written, runs, unit_status, remaining_geohashes,
                   processed_geohashes, unit_index, loaded, fetched, upserted,
                   notMig>>

\* after the last chunk: the final save_progress and the cleanup question
MFinish(p, cleanup) ==
    /\ p \in MProcs
    /\ pc[p] = "m_loop"
    /\ CanStep(p)
    /\ unit_index >= Len(remaining_geohashes)
    /\ progress_file' = IF cleanup THEN NoFile
                        ELSE SavedProgress(processed_geohashes)
    /\ pc' = [pc EXCEPT ![p] = "done"]
    /\ UNCHANGED <<storeVars, cur_geohash, wanted, geohash_to_id_map, op_err,
                   batch, written, runs, unit_status, remaining_geohashes,
                   processed_geohashes, unit_index, loaded, fetched, upserted,
                   notMig>>

\* except KeyboardInterrupt: save_progress, then the script ends
MInterrupt(p) ==
    /\ p \in MProcs
    /\ pc[p] \in {"m_loop", "m_verify", "m_upsert", "m_record"}
    /\ progress_file' = SavedProgress(processed_geohashes)
    /\ pc' = [pc EXCEPT ![p] = "stopped"]
    /\ batch' = [batch EXCEPT ![p] = <<>>]
    /\ UNCHANGED <<storeVars, cur_geohash, wanted, geohash_to_id_map, op_err,
                   written, runs, unit_status, remaining_geohashes,
                   processed_geohashes, unit_index, loaded, fetched, upserted,
                   notMig>>

\* the process is killed: nothing is saved
MCrash(p) ==
    /\ p \in MProcs
    /\ pc[p] \notin Stopped
    /\ pc' = [pc EXCEPT ![p] = "dead"]
    /\ batch' = [batch EXCEPT ![p] = <<>>]
    /\ processed_geohashes' = {}
    /\ UNCHANGED <<storeVars, cur_geohash, wanted, geohash_to_id_map, op_err,
                   written, runs, unit_status, progress_file,
                   remaining_geohashes, unit_index, loaded, fetched, upserted,
                   notMig>>

(***************************************************************************)
(* Scripts calling save_pois_to_db directly                                *)
(***************************************************************************)
\* the lists process_chunk hands over: the POIs of one geohash
SavePayloads ==
    UNION {{NamedAll(poi_list, name) :
               poi_list \in ListsOf(UnitPois(hits, c.id))} :
              hits \in FetchOutcomes \ {{}}, c \in grid_cells,
              name \in api_names}

\* save_pois_to_db(pois): if not pois: return 0; else the batch is grouped
CallSavePois(p, poi_list) ==
    /\ p \in Callers
    /\ pc[p] = "idle"
    /\ CanStep(p)
    /\ poi_list # <<>>
    /\ batch' = [batch EXCEPT ![p] = BatchMerge(poi_list)]
    /\ saves' = RememberSave(PendingSave(poi_list))
    /\ op_err' = [op_err EXCEPT ![p] = FALSE]
    /\ pc' = [pc EXCEPT ![p] = "spd_select"]
    /\ UNCHANGED <<storeVars, sequential, repairVars, uploadVars, filterVars,
                   cur_geohash, ret, wanted,
                   geohash_to_id_map, before, calls, mergeVars, api_places,
                   written, kyotoVars, migVars>>

\* return success_count
SavePoisReturns(p) ==
    /\ p \in Callers
    /\ pc[p] = "spd_ret"
    /\ CanStep(p)
    /\ saves' = IF saves = <<>> THEN saves
                ELSE [saves EXCEPT ![Len(saves)] =
                         SaveRecord(p, saves[Len(saves)].payload, pois)]
    /\ op_err' = [op_err EXCEPT ![p] = FALSE]
    /\ pc' = [pc EXCEPT ![p] = "idle"]
    /\ UNCHANGED <<storeVars, sequential, repairVars, uploadVars, filterVars,
                   cur_geohash, ret, wanted,
                   geohash_to_id_map, before, calls, mergeVars, api_places,
                   batch, written, kyotoVars, migVars>>

(***************************************************************************)
(* check_grid_cell_duplicates.py: the repair of duplicate grid cells       *)
(***************************************************************************)
\* sorted(cells, key=lambda x: x['created_at']): stable, oldest first
RECURSIVE SortedByCreatedAt(_)
SortedByCreatedAt(cells) ==
    IF Len(cells) <= 1 THEN cells
    ELSE LET sorted_cells == SortedByCreatedAt(Front(cells))
             cell == cells[Len(cells)]
             k == Cardinality({i \in DOMAIN sorted_cells :
                     sorted_cells[i].created_at <= cell.created_at})
         IN SubSeq(sorted_cells, 1, k) \o <<cell>> \o
            SubSeq(sorted_cells, k + 1, Len(sorted_cells))

\* geohash_groups.keys(): the geohashes in the order the scan met them
RECURSIVE GroupKeys(_)
GroupKeys(data) ==
    IF data = <<>> THEN <<>>
    ELSE LET keys == GroupKeys(Front(data))
             geohash == data[Len(data)].geohash
         IN IF geohash \in Range(keys) THEN keys ELSE Append(keys, geohash)

\* geohash_groups[geohash]
GeohashGroup(data, geohash) ==
    SelectSeq(data, LAMBDA cell : cell.geohash = geohash)

\* (fault of the code: the newest row of the group is the one kept)
RemoveEntriesKeepLast(geohash, sorted_cells) ==
    [i \in 1..(Len(sorted_cells) - 1) |->
        [geohash |-> geohash, keep |-> sorted_cells[Len(sorted_cells)].id,
         remove |-> sorted_cells[i].id]]

\* the entries of one group: keep sorted_cells[0], remove sorted_cells[1:]
RemoveEntries(geohash, sorted_cells) ==
    [i \in 1..(Len(sorted_cells) - 1) |->
        [geohash |-> geohash, keep |-> sorted_cells[1].id,
         remove |-> sorted_cells[i + 1].id]]

\* duplicates, in the order the repair loops walk it
RECURSIVE Duplicates(_, _)
Duplicates(data, keys) ==
    IF keys = <<>> THEN <<>>
    ELSE LET cells == GeohashGroup(data, Head(keys))
         IN (IF Len(cells) > 1
             THEN RemoveEntries(Head(keys), SortedByCreatedAt(cells))
             ELSE <<>>) \o Duplicates(data, Tail(keys))

\* no scan was made yet
NoScan == [cells |-> {}, pois |-> {}, data |-> <<>>]

notRepair == <<next_cell_id, sequential, uploadVars, filterVars, cur_geohash,
               ret, wanted, repair_run, after_repair,
               geohash_to_id_map, before, calls, mergeVars, api_places,
               saves, written, kyotoVars, migVars>>

\* except Exception: the error is printed and the script ends
RepairAborts(p) ==
    /\ faults' = faults + 1
    /\ op_err' = [op_err EXCEPT ![p] = TRUE]
    /\ batch' = [batch EXCEPT ![p] = <<>>]
    /\ pc' = [pc EXCEPT ![p] = "done"]

\* result = select('id, geohash, created_at') of grid_cells, and the plan
RScan(p) ==
    /\ p \in RProcs
    /\ pc[p] = "idle"
    /\ CanStep(p)
    /\ \/ /\ CanFail
          /\ RepairAborts(p)
          /\ UNCHANGED <<duplicates, at_scan>>
       \/ /\ \E data \in ListsOf(grid_cells) :
                /\ duplicates' = Duplicates(data, GroupKeys(data))
                /\ at_scan' = [cells |-> grid_cells, pois |-> pois,
                               data |-> data]
          /\ pc' = [pc EXCEPT ![p] = IF duplicates' = <<>> THEN "done"
                                     ELSE "r_confirm"]
          /\ UNCHANGED <<faults, op_err, batch>>
    /\ UNCHANGED <<grid_cells, pois, dup_index, confirm_input, notRepair>>

\* what the operator can type at the question
Answers == {"yes", "YES", "y", "no"}

\* confirm.lower(), on the answers of the model
Lower(answer) ==
    CASE answer \in {"yes", "YES"} -> "yes"
      [] OTHER -> answer

\* (fault of the code: the answer is not looked at)
RConfirmAlways(p, answer) ==
    /\ p \in RProcs
    /\ pc[p] = "r_confirm"
    /\ CanStep(p)
    /\ \/ /\ CanFail
          /\ RepairAborts(p)
          /\ UNCHANGED <<dup_index, confirm_input>>
       \/ /\ confirm_input' = answer
          /\ dup_index' = 1
          /\ pc' = [pc EXCEPT ![p] = "r_select"]
          /\ UNCHANGED <<faults, op_err, batch>>
    /\ at_scan' = [at_scan EXCEPT !.data = <<>>]
    /\ UNCHANGED <<grid_cells, pois, duplicates, notRepair>>

\* the preview of the plan (one select of pois per cell to remove) and
\* confirm = input(...): anything but 'yes' cancels; result, the rows of
\* the scan, is not used after the plan was shown
RConfirm(p, answer) ==
    /\ p \in RProcs
    /\ pc[p] = "r_confirm"
    /\ CanStep(p)
    /\ \/ /\ CanFail
          /\ RepairAborts(p)
          /\ UNCHANGED <<dup_index, confirm_input>>
       \/ /\ confirm_input' = answer
          /\ dup_index' = IF Lower(answer) = "yes" THEN 1 ELSE 0
          /\ pc' = [pc EXCEPT ![p] = IF Lower(answer) = "yes" THEN "r_select"
                                     ELSE "done"]
          /\ UNCHANGED <<faults, op_err, batch>>
    /\ at_scan' = [at_scan EXCEPT !.data = <<>>]
    /\ UNCHANGED <<grid_cells, pois, duplicates, notRepair>>

\* poi_result = select('id').eq('grid_cell_id', remove_cell['id'])
RSelectPois(p) ==
    /\ p \in RProcs
    /\ pc[p] = "r_select"
    /\ CanStep(p)
    /\ LET remove_cell == duplicates[dup_index].remove
           referencing == {[id |-> r.id] :
                             r \in {x \in pois : x.grid_cell_id = remove_cell}}
       IN \/ /\ CanFail
             /\ RepairAborts(p)
          \/ /\ \E data \in ListsOf(referencing) :
                   batch' = [batch EXCEPT ![p] = data]
             /\ pc' = [pc EXCEPT ![p] = IF referencing = {} THEN "r_delete"
                                        ELSE "r_update"]
             /\ UNCHANGED <<faults, op_err>>
    /\ UNCHANGED <<grid_cells, pois, repairVars, notRepair>>

\* (fault of the code: the POI is not re-pointed before the cell goes)
RUpdatePoiSkip(p) ==
    /\ p \in RProcs
    /\ pc[p] = "r_update"
    /\ CanStep(p)
    /\ batch' = [batch EXCEPT ![p] = Tail(batch[p])]
    /\ pc' = [pc EXCEPT ![p] = IF Len(batch[p]) = 1 THEN "r_delete"
                               ELSE "r_update"]
    /\ UNCHANGED <<grid_cells, pois, faults, op_err, repairVars, notRepair>>

\* update({'grid_cell_id': keep_cell['id']}).eq('id', poi['id']); a POI
\* that has no row by now gives no data: this is printed, the loop goes on
RUpdatePoi(p) ==
    /\ p \in RProcs
    /\ pc[p] = "r_update"
    /\ CanStep(p)
    /\ LET poi == Head(batch[p])
           keep_cell == duplicates[dup_index].keep
       IN \/ /\ CanFail
             /\ RepairAborts(p)
             /\ UNCHANGED pois
          \/ /\ pois' = {IF r.id = poi.id
                         THEN [r EXCEPT !.grid_cell_id = keep_cell]
                         ELSE r : r \in pois}
             /\ batch' = [batch EXCEPT ![p] = Tail(batch[p])]
             /\ pc' = [pc EXCEPT ![p] = IF Len(batch[p]) = 1 THEN "r_delete"
                                        ELSE "r_update"]
             /\ UNCHANGED <<faults, op_err>>
    /\ UNCHANGED <<grid_cells, repairVars, notRepair>>

\* (fault of the code: the cell to remove is left in the table)
RDeleteKeep(p) ==
    /\ p \in RProcs
    /\ pc[p] = "r_delete"
    /\ CanStep(p)
    /\ \/ /\ CanFail
          /\ RepairAborts(p)
          /\ UNCHANGED <<grid_cells, dup_index>>
       \/ /\ grid_cells' = grid_cells
          /\ dup_index' = IF dup_index = Len(duplicates) THEN dup_index
                          ELSE dup_index + 1
          /\ pc' = [pc EXCEPT ![p] = IF dup_index = Len(duplicates)
                                     THEN "done" ELSE "r_select"]
          /\ UNCHANGED <<faults, op_err, batch>>
    /\ UNCHANGED <<pois, duplicates, at_scan, confirm_input, notRepair>>

\* delete().eq('id', remove_cell['id']), then the next cell to remove
RDelete(p) ==
    /\ p \in RProcs
    /\ pc[p] = "r_delete"
    /\ CanStep(p)
    /\ \/ /\ CanFail
          /\ RepairAborts(p)
          /\ UNCHANGED <<grid_cells, dup_index>>
       \/ /\ grid_cells' = grid_cells \ CellsById(duplicates[dup_index].remove)
          /\ dup_index' = IF dup_index = Len(duplicates) THEN dup_index
                          ELSE dup_index + 1
          /\ pc' = [pc EXCEPT ![p] = IF dup_index = Len(duplicates)
                                     THEN "done" ELSE "r_select"]
          /\ UNCHANGED <<faults, op_err, batch>>
    /\ UNCHANGED <<pois, duplicates, at_scan, confirm_input, notRepair>>

\* the script is started again: main() begins with fresh locals
RMain(p) ==
    /\ p \in RProcs
    /\ pc[p] = "done"
    /\ repair_run < MaxRuns
    /\ repair_run' = repair_run + 1
    /\ after_repair' = [confirmed |-> Lower(confirm_input) = "yes"
                                         /\ ~op_err[p],
                        cells |-> grid_cells, pois |-> pois]
    /\ duplicates' = <<>>
    /\ dup_index' = 0
    /\ at_scan' = NoScan
    /\ confirm_input' = ""
    /\ op_err' = [op_err EXCEPT ![p] = FALSE]
    /\ batch' = [batch EXCEPT ![p] = <<>>]
    /\ pc' = [pc EXCEPT ![p] = "idle"]
    /\ UNCHANGED <<storeVars, sequential, uploadVars, filterVars,
                   cur_geohash, ret, wanted, geohash_to_id_map, before, calls,
                   mergeVars, api_places, saves, written, kyotoVars,
                   migVars>>

(***************************************************************************)
(* upload_kyoto_horror_spots.py: one POI per CSV row                       *)
(***************************************************************************)
\* str(uuid.uuid4()): a value no earlier call returned
UuidOrder == <<"u1", "u2", "u3", "u4", "u5", "u6", "u7", "u8", "u9">>

\* the rows csv.DictReader can yield
CsvRows == [name : {"n1", "n2"}, url : {"", "x1", "x2"}, geohash : Geohashes]

\* determine_categories(name, description): 'horror_spot' comes first
HorrorCategories == <<"horror_spot">>

notUpload == <<sequential, repairVars, filterVars, api_names, csv_rows,
               TEST_MODE, wanted,
               geohash_to_id_map, before, calls, mergeVars, api_places,
               saveVars, geohash_list, chunk_size, plan3_progress,
               chunk_index, geohash_in_chunk, resumed, processed,
               unit_status, migVars>>

\* the counters of main at its start; inserted counts the rows the inserts
\* of the run have put into pois, which the script does not count itself
NoTotals == [added |-> 0, skipped |-> 0, errors |-> 0, inserted |-> 0]

\* one of total_added, total_skipped and total_errors is incremented; then
\* the loop takes the next row, or the script prints its summary and ends
UNextRow(p, err, table, cells, counter) ==
    /\ totals' = [totals EXCEPT ![counter] = @ + 1,
                                !.inserted = @ + Cardinality(table \ pois)]
    /\ op_err' = [op_err EXCEPT ![p] = op_err[p] \/ err]
    /\ ret' = [ret EXCEPT ![p] = Falsy]
    /\ IF csv_index = Len(csv_rows)
       THEN /\ pc' = [pc EXCEPT ![p] = "done"]
            /\ csv_index' = csv_index
            /\ after_upload' =
                  IF after_upload.taken THEN after_upload
                  ELSE [taken |-> TRUE, clean |-> ~(op_err[p] \/ err),
                        pois |-> Cardinality(table),
                        grid_cells |-> Cardinality(cells)]
       ELSE /\ pc' = [pc EXCEPT ![p] = "u_row"]
            /\ csv_index' = csv_index + 1
            /\ UNCHANGED after_upload

\* main: the CSV file is opened and read from its first row
UMain(p) ==
    /\ p \in UProcs
    /\ pc[p] \in Stopped
    /\ CanStep(p)
    /\ runs < MaxRuns
    /\ runs' = runs + 1
    /\ csv_index' = 1
    /\ totals' = NoTotals
    /\ op_err' = [op_err EXCEPT ![p] = FALSE]
    /\ pc' = [pc EXCEPT ![p] = "u_row"]
    /\ UNCHANGED <<storeVars, cur_geohash, ret, next_uuid, after_upload,
                   notUpload>>

\* a row in test mode: check_duplicate answers False, save_grid_cell 999
\* and insert_poi_with_geometry {'success': True}, none touching the store
UTestRow(p) ==
    /\ p \in UProcs
    /\ pc[p] = "u_row"
    /\ TEST_MODE
    /\ CanStep(p)
    /\ LET row == csv_rows[csv_index]
       IN IF row.url = ""
          THEN /\ UNextRow(p, FALSE, pois, grid_cells, "errors")
               /\ UNCHANGED next_uuid
          ELSE /\ UNextRow(p, FALSE, pois, grid_cells, "added")
               /\ next_uuid' = next_uuid + 1
    /\ UNCHANGED <<storeVars, cur_geohash, runs, notUpload>>

\* a row that lacks data is skipped; check_duplicate: the select by name.
\* except Exception: return False, the row counts as not registered
UCheckName(p) ==
    /\ p \in UProcs
    /\ pc[p] = "u_row"
    /\ ~TEST_MODE
    /\ CanStep(p)
    /\ LET row == csv_rows[csv_index]
       IN \/ /\ row.url = ""
             /\ UNextRow(p, FALSE, pois, grid_cells, "errors")
             /\ UNCHANGED <<faults, cur_geohash>>
          \/ /\ row.url # ""
             /\ CanFail
             /\ faults' = faults + 1
             /\ op_err' = [op_err EXCEPT ![p] = TRUE]
             /\ cur_geohash' = [cur_geohash EXCEPT ![p] = row.geohash]
             /\ pc' = [pc EXCEPT ![p] = "sgc_select"]
             /\ UNCHANGED <<ret, csv_index, after_upload, totals>>
          \/ /\ row.url # ""
             /\ \E r \in pois : r.name = row.name
             /\ UNextRow(p, FALSE, pois, grid_cells, "skipped")
             /\ UNCHANGED <<faults, cur_geohash>>
          \/ /\ row.url # ""
             /\ ~\E r \in pois : r.name = row.name
             /\ pc' = [pc EXCEPT ![p] = "u_check_url"]
             /\ UNCHANGED <<faults, op_err, cur_geohash, ret, csv_index,
                            after_upload, totals>>
    /\ UNCHANGED <<grid_cells, next_cell_id, pois, next_uuid, runs, notUpload>>

\* check_duplicate: the select by url, then geohash = pgh.encode(lat, lon)
UCheckUrl(p) ==
    /\ p \in UProcs
    /\ pc[p] = "u_check_url"
    /\ CanStep(p)
    /\ LET row == csv_rows[csv_index]
       IN \/ /\ CanFail
             /\ faults' = faults + 1
             /\ op_err' = [op_err EXCEPT ![p] = TRUE]
             /\ cur_geohash' = [cur_geohash EXCEPT ![p] = row.geohash]
             /\ pc' = [pc EXCEPT ![p] = "sgc_select"]
             /\ UNCHANGED <<ret, csv_index, after_upload, totals>>
          \/ /\ \E r \in pois : r.url = row.url
             /\ UNextRow(p, FALSE, pois, grid_cells, "skipped")
             /\ UNCHANGED <<faults, cur_geohash>>
          \/ /\ ~\E r \in pois : r.url = row.url
             /\ cur_geohash' = [cur_geohash EXCEPT ![p] = row.geohash]
             /\ pc' = [pc EXCEPT ![p] = "sgc_select"]
             /\ UNCHANGED <<faults, op_err, ret, csv_index, after_upload,
                            totals>>
    /\ UNCHANGED <<grid_cells, next_cell_id, pois, next_uuid, runs, notUpload>>

\* (fault of the code: a failed insert is counted as added)
UInsertPoiMiscount(p) ==
    /\ p \in UProcs
    /\ pc[p] = "sgc_ret"
    /\ CanStep(p)
    /\ LET row == csv_rows[csv_index]
           poi_data == [id |-> UuidOrder[next_uuid + 1],
                        categories |-> HorrorCategories,
                        grid_cell_id |-> ret[p], name |-> row.name,
                        url |-> row.url]
       IN \/ /\ ret[p] = Falsy
             /\ UNextRow(p, FALSE, pois, grid_cells, "errors")
             /\ UNCHANGED <<pois, faults, next_uuid>>
          \/ /\ ret[p] # Falsy
             /\ CanFail
             /\ faults' = faults + 1
             /\ next_uuid' = next_uuid + 1
             /\ UNextRow(p, TRUE, pois, grid_cells, "added")
             /\ UNCHANGED pois
          \/ /\ ret[p] # Falsy
             /\ pois' = pois \cup {RowOf(poi_data, {})}
             /\ next_uuid' = next_uuid + 1
             /\ UNextRow(p, FALSE, pois', grid_cells, "added")
             /\ UNCHANGED faults
    /\ UNCHANGED <<grid_cells, next_cell_id, cur_geohash, runs, notUpload>>

\* if not grid_cell_id: the row is skipped; else poi_data gets a fresh id
\* and insert_poi_with_geometry inserts it (an error is printed, no retry)
UInsertPoi(p) ==
    /\ p \in UProcs
    /\ pc[p] = "sgc_ret"
    /\ CanStep(p)
    /\ LET row == csv_rows[csv_index]
           poi_data == [id |-> UuidOrder[next_uuid + 1],
                        categories |-> HorrorCategories,
                        grid_cell_id |-> ret[p], name |-> row.name,
                        url |-> row.url]
       IN \/ /\ ret[p] = Falsy
             /\ UNextRow(p, FALSE, pois, grid_cells, "errors")
             /\ UNCHANGED <<pois, faults, next_uuid>>
          \/ /\ ret[p] # Falsy
             /\ CanFail
             /\ faults' = faults + 1
             /\ next_uuid' = next_uuid + 1
             /\ UNextRow(p, TRUE, pois, grid_cells, "errors")
             /\ UNCHANGED pois
          \/ /\ ret[p] # Falsy
             /\ pois' = pois \cup {RowOf(poi_data, {})}
             /\ next_uuid' = next_uuid + 1
             /\ UNextRow(p, FALSE, pois', grid_cells, "added")
             /\ UNCHANGED faults
    /\ UNCHANGED <<grid_cells, next_cell_id, cur_geohash, runs, notUpload>>

(***************************************************************************)
(* populate_pois_chunk: from the search results of one geohash to its      *)
(* batch.  Ratings are in tenths.                                          *)
(***************************************************************************)
NoPlaceId == ""               \* place.get('place_id') is None

\* the searched types of the model, in the order of POI_TYPES
SearchedTypes == <<"cafe", "park">>

\* min_rating = 3.0 if poi_type == 'park' else MIN_RATING
MinRating(poi_type) ==
    IF poi_type = "park" THEN PARK_MIN_RATING ELSE MIN_RATING

\* no search has returned anything
NoResults == [cafe |-> <<>>, park |-> <<>>]

NoBatch == [found_place_ids |-> {}, pois_to_insert |-> <<>>]

\* (fault of the code: the comparison with the threshold is strict)
AdmitPlaceStrict(st, place, poi_type) ==
    IF /\ place.place_id # NoPlaceId
       /\ place.place_id \notin st.found_place_ids
       /\ place.rating > MinRating(poi_type)
       /\ ~(poi_type = "park" /\ place.riverside)
    THEN [found_place_ids |-> st.found_place_ids \cup {place.place_id},
          pois_to_insert |-> Append(st.pois_to_insert,
              [id |-> place.place_id,
               category |-> IF place.types # <<>> THEN place.types[1]
                            ELSE poi_type,
               rate |-> place.rating])]
    ELSE st

\* the body of "for place in places" of the loop over POI_TYPES
AdmitPlace(st, place, poi_type) ==
    IF /\ place.place_id # NoPlaceId
       /\ place.place_id \notin st.found_place_ids
       /\ place.rating >= MinRating(poi_type)
       /\ ~(poi_type = "park" /\ place.riverside)
    THEN [found_place_ids |-> st.found_place_ids \cup {place.place_id},
          pois_to_insert |-> Append(st.pois_to_insert,
              [id |-> place.place_id,
               category |-> IF place.types # <<>> THEN place.types[1]
                            ELSE poi_type,
               rate |-> place.rating])]
    ELSE st

\* the body of "for place in park_places": riverside parks, from 3.0 on
AdmitRiverside(st, place) ==
    IF /\ place.place_id # NoPlaceId
       /\ place.place_id \notin st.found_place_ids
       /\ place.rating >= PARK_MIN_RATING
       /\ place.riverside
    THEN [found_place_ids |-> st.found_place_ids \cup {place.place_id},
          pois_to_insert |-> Append(st.pois_to_insert,
              [id |-> place.place_id, category |-> "riverside_park",
               rate |-> place.rating])]
    ELSE st

RECURSIVE AdmitPlaces(_, _, _)
AdmitPlaces(st, places, poi_type) ==
    IF places = <<>> THEN st
    ELSE AdmitPlaces(AdmitPlace(st, Head(places), poi_type), Tail(places),
                     poi_type)

RECURSIVE AdmitRiversides(_, _)
AdmitRiversides(st, places) ==
    IF places = <<>> THEN st
    ELSE AdmitRiversides(AdmitRiverside(st, Head(places)), Tail(places))

RECURSIVE AdmitTypes(_, _, _)
AdmitTypes(st, results, n) ==
    IF n = 0 THEN st
    ELSE AdmitPlaces(AdmitTypes(st, results, n - 1),
                     results[SearchedTypes[n]], SearchedTypes[n])

\* pois_to_insert of one geohash
PoisToInsert(results) ==
    AdmitRiversides(AdmitTypes(NoBatch, results, Len(SearchedTypes)),
                    results.park).pois_to_insert

\* the unit builds its batch from what the searches returned
MBuildBatch(p) ==
    /\ p \in MProcs
    /\ pc[p] = "idle"
    /\ search_results # NoResults
    /\ filtered_batch' = PoisToInsert(search_results)
    /\ pc' = [pc EXCEPT ![p] = "built"]
    /\ UNCHANGED <<storeVars, sequential, repairVars, uploadVars,
                   search_results, fetch_calls, cellVars, mergeVars,
                   api_places, saveVars, kyotoVars, migVars>>

\* 'rating': place.get('rating') of search_places_by_type, then
\* poi.get('rating', 0.0): the key is always there, so a place without a
\* rating (0 in the search results of the model) keeps None
NoRate == "None"

RateOf(place) == IF place.rating = 0 THEN NoRate ELSE place.rating

\* the results of the search of place_type (only SearchedTypes return any)
ResultsOf(results, place_type) ==
    IF place_type \in DOMAIN results THEN results[place_type] ELSE <<>>

\* the body of "for poi in pois" of get_pois_for_geohash; poi_dict is the
\* list of its values in the order of insertion.  No rating is compared.
PoiDictAdd(poi_dict, poi, place_type) ==
    IF poi.place_id = NoPlaceId THEN poi_dict
    ELSE IF \E i \in DOMAIN poi_dict : poi_dict[i].id = poi.place_id
    THEN [i \in DOMAIN poi_dict |->
             IF poi_dict[i].id = poi.place_id
             THEN [poi_dict[i] EXCEPT
                      !.categories = MergeCategories(@,
                                         <<POI_TYPES[place_type]>>)]
             ELSE poi_dict[i]]
    ELSE Append(poi_dict, [id |-> poi.place_id,
                           categories |-> <<POI_TYPES[place_type]>>,
                           rate |-> RateOf(poi)])

RECURSIVE PoiDictAddAll(_, _, _)
PoiDictAddAll(poi_dict, places, place_type) ==
    IF places = <<>> THEN poi_dict
    ELSE PoiDictAddAll(PoiDictAdd(poi_dict, Head(places), place_type),
                       Tail(places), place_type)

\* "for place_type in POI_TYPES.keys()", the first n types
RECURSIVE PoiDictTypes(_, _)
PoiDictTypes(results, n) ==
    IF n = 0 THEN <<>>
    ELSE PoiDictAddAll(PoiDictTypes(results, n - 1),
                       ResultsOf(results, TypeOrder[n]), TypeOrder[n])

\* all_pois = list(poi_dict.values())
AllPois(results) == PoiDictTypes(results, Len(TypeOrder))

\* the unit of the chunked job builds its records from the same searches
KBuildBatch(p) ==
    /\ p \in KProcs
    /\ pc[p] = "idle"
    /\ search_results # NoResults
    /\ batch' = [batch EXCEPT ![p] = AllPois(search_results)]
    /\ pc' = [pc EXCEPT ![p] = "built"]
    /\ UNCHANGED <<storeVars, sequential, repairVars, uploadVars,
                   filterVars, cellVars, mergeVars, api_places, saves,
                   written, kyotoVars, migVars>>

(***************************************************************************)
(* fetch_places and search_places_by_type: one search, with its retries    *)
(***************************************************************************)
\* no search was called yet
NoFetch ==
    [state |-> "idle", type_index |-> 0, retry_count |-> 0, attempt |-> 0,
     requests |-> 0, failures |-> 0, exhausted |-> 0, places |-> <<>>]

notFetch == <<storeVars, sequential, pc, cellVars, mergeVars, api_places,
              saveVars, kyotoVars, migVars, repairVars, uploadVars,
              search_results, filtered_batch>>

\* the loop over the types of the unit calls the search of the next type
CallFetch(p) ==
    /\ p \in MProcs \cup KProcs
    /\ fetch_calls[p].state \in {"idle", "returned"}
    /\ fetch_calls[p].type_index < Len(SearchedTypes)
    /\ fetch_calls' = [fetch_calls EXCEPT
          ![p] = [NoFetch EXCEPT
                    !.state = "loop",
                    !.type_index = fetch_calls[p].type_index + 1,
                    !.exhausted = fetch_calls[p].exhausted]]
    /\ UNCHANGED notFetch

\* the search returns all_places to the loop over the types
FetchReturns(call, places) ==
    [call EXCEPT
        !.state = "returned", !.places = places,
        !.exhausted = IF call.failures = call.requests THEN @ + 1 ELSE @]

\* (fault of the code: one more pass of the loop before it gives up)
FetchPlacesRequestLate(p, outcome) ==
    /\ p \in MProcs
    /\ fetch_calls[p].state = "loop"
    /\ fetch_calls[p].retry_count <= MAX_RETRIES + 1
    /\ LET call == [fetch_calls[p] EXCEPT !.requests = @ + 1]
           failed == [call EXCEPT !.failures = @ + 1]
       IN fetch_calls' = [fetch_calls EXCEPT ![p] =
             IF outcome = "ok"
             THEN FetchReturns(call, <<"p1">>)
             ELSE IF outcome = "RequestException"
             THEN IF failed.retry_count + 1 <= MAX_RETRIES + 1
                  THEN [failed EXCEPT !.retry_count = @ + 1]
                  ELSE FetchReturns([failed EXCEPT !.retry_count = @ + 1],
                                    <<>>)
             ELSE FetchReturns(failed, <<>>)]
    /\ UNCHANGED notFetch

\* fetch_places, one pass of "while retry_count <= MAX_RETRIES": the
\* request, and what the except clauses do with a failure
FetchPlacesRequest(p, outcome) ==
    /\ p \in MProcs
    /\ fetch_calls[p].state = "loop"
    /\ fetch_calls[p].retry_count <= MAX_RETRIES
    /\ LET call == [fetch_calls[p] EXCEPT !.requests = @ + 1]
           failed == [call EXCEPT !.failures = @ + 1]
       IN fetch_calls' = [fetch_calls EXCEPT ![p] =
             IF outcome = "ok"
             THEN FetchReturns(call, <<"p1">>)
             ELSE IF outcome = "RequestException"
             THEN IF failed.retry_count + 1 <= MAX_RETRIES
                  THEN [failed EXCEPT !.retry_count = @ + 1]
                  ELSE FetchReturns([failed EXCEPT !.retry_count = @ + 1],
                                    <<>>)
             ELSE FetchReturns(failed, <<>>)]
    /\ UNCHANGED notFetch

\* search_places_by_type, one pass of "for attempt in range(MAX_RETRIES)"
SearchPlacesRequest(p, outcome) ==
    /\ p \in KProcs
    /\ fetch_calls[p].state = "loop"
    /\ fetch_calls[p].attempt < MAX_RETRIES
    /\ LET call == [fetch_calls[p] EXCEPT !.requests = @ + 1]
           failed == [call EXCEPT !.failures = @ + 1]
       IN fetch_calls' = [fetch_calls EXCEPT ![p] =
             IF outcome = "ok"
             THEN FetchReturns(call, <<"p1">>)
             ELSE IF failed.attempt < MAX_RETRIES - 1
             THEN [failed EXCEPT !.attempt = @ + 1]
             ELSE FetchReturns(failed, <<>>)]
    /\ UNCHANGED notFetch

(***************************************************************************)
(* Get-or-create on its own: two scripts against one store                 *)
(***************************************************************************)
\* stores a run can start from: at most two rows, ids in creation order
StartCells ==
    {{}} \cup
    {{[id |-> 1, geohash |-> g, created_at |-> 0]} : g \in Geohashes} \cup
    {{[id |-> 1, geohash |-> g, created_at |-> 0],
      [id |-> 2, geohash |-> h, created_at |-> t]} :
         g \in Geohashes, h \in Geohashes, t \in 0..1}

HasDuplicates(cells) ==
    \E c, d \in cells : c.id # d.id /\ c.geohash = d.geohash

NoSnapshot == [taken |-> FALSE, clean |-> FALSE, pois |-> 0, grid_cells |-> 0]

InitNoFilter ==
    /\ search_results = NoResults
    /\ filtered_batch = <<>>
    /\ fetch_calls = [p \in MProcs \cup KProcs |-> NoFetch]

InitNoUpload ==
    /\ InitNoFilter
    /\ api_names = {"n1"}
    /\ csv_rows = <<>>
    /\ csv_index = 0
    /\ next_uuid = 0
    /\ after_upload = NoSnapshot
    /\ TEST_MODE = FALSE
    /\ totals = NoTotals

NoRepairRun == [confirmed |-> FALSE, cells |-> {}, pois |-> {}]

InitNoRepair ==
    /\ duplicates = <<>>
    /\ dup_index = 0
    /\ at_scan = NoScan
    /\ confirm_input = ""
    /\ repair_run = 1
    /\ after_repair = NoRepairRun

InitLocals ==
    /\ pois = {}
    /\ faults = 0
    /\ pc = [p \in Procs |-> "idle"]
    /\ cur_geohash = [p \in Procs |-> "g1"]
    /\ ret = [p \in Procs |-> Falsy]
    /\ wanted = [p \in Procs |-> {}]
    /\ geohash_to_id_map = [p \in Procs |-> NoMap]
    /\ op_err = [p \in Procs |-> FALSE]
    /\ before = [p \in Procs |-> ZeroCount]
    /\ calls = <<>>
    /\ InitNoRepair
    /\ InitNoUpload

InitNoMigration ==
    /\ progress_file = NoFile
    /\ all_geohashes = <<>>
    /\ remaining_geohashes = <<>>
    /\ processed_geohashes = {}
    /\ unit_index = 0
    /\ loaded = {}
    /\ fetched = {}
    /\ upserted = {}

InitNoMerge ==
    /\ hash_order = <<"kafe", "koen", "hakubutsukan">>
    /\ merge_in = <<>>
    /\ fold = NoFold
    /\ seen_sets = {}

InitNoJob ==
    /\ api_places = {}
    /\ batch = [p \in Procs |-> <<>>]
    /\ saves = <<>>
    /\ written = [i \in PlaceIds |-> {}]
    /\ geohash_list = <<>>
    /\ chunk_size = 1
    /\ plan3_progress = NoProgress
    /\ chunk_index = [p \in Procs |-> 0]
    /\ geohash_in_chunk = [p \in Procs |-> 0]
    /\ runs = 0
    /\ resumed = FALSE
    /\ processed = {}
    /\ unit_status = [g \in Geohashes |-> "none"]
    /\ InitNoMigration

InitCell ==
    /\ grid_cells \in {s \in StartCells : ~HasDuplicates(s)}
    /\ next_cell_id = Cardinality(grid_cells) + 1
    /\ sequential = FALSE
    /\ InitLocals
    /\ InitNoMerge
    /\ InitNoJob

InitCellSeq ==
    /\ grid_cells \in StartCells
    /\ next_cell_id = Cardinality(grid_cells) + 1
    /\ sequential = TRUE
    /\ InitLocals
    /\ InitNoMerge
    /\ InitNoJob

NextCell ==
    \E p \in Callers :
       \/ \E g \in Geohashes : CallSaveGridCell(p, g)
       \/ SaveGridCellSelect(p)
       \/ SaveGridCellInsert(p)
       \/ SaveGridCellReturns(p)
       \/ \E L \in SUBSET Geohashes : CallEnsureGridCells(p, L)
       \/ EnsureSelectAll(p)
       \/ EnsureUpsert(p)
       \/ EnsureSelectIn(p)
       \/ EnsureGridCellsReturns(p)

SpecCell == InitCell /\ [][NextCell]_vars

SpecCellSeq == InitCellSeq /\ [][NextCell]_vars

(***************************************************************************)
(* The category merge on its own                                           *)
(***************************************************************************)
InitMerge ==
    /\ grid_cells = {}
    /\ next_cell_id = 1
    /\ sequential = TRUE
    /\ InitLocals
    /\ hash_order \in HashOrders
    /\ merge_in \in [1..3 -> [id : {"p1"}, categories : CategoryLists,
                              grid_cell_id : {1}]]
    /\ fold = NoFold
    /\ seen_sets = {}
    /\ InitNoJob

NextMerge ==
    \/ \E i, j, k \in 1..3, left \in BOOLEAN : MergeBegin(i, j, k, left)
    \/ MergeInner
    \/ MergeOuter

SpecMerge == InitMerge /\ [][NextMerge]_vars

(***************************************************************************)
(* The chunked job on its own, interrupted and started again               *)
(***************************************************************************)
InitKyoto ==
    /\ grid_cells = {}
    /\ next_cell_id = 1
    /\ sequential = TRUE
    /\ InitLocals
    /\ InitNoMerge
    /\ api_places \in {{<<"p1", "cafe">>}, {<<"p1", "cafe">>, <<"p1", "park">>},
                        {<<"p1", "cafe">>, <<"p2", "cafe">>}}
    /\ batch = [p \in Procs |-> <<>>]
    /\ saves = <<>>
    /\ written = [i \in PlaceIds |-> {}]
    /\ geohash_list = <<"g1", "g2">>
    /\ chunk_size \in {1, 2}
    /\ plan3_progress = NoProgress
    /\ chunk_index = [p \in Procs |-> 0]
    /\ geohash_in_chunk = [p \in Procs |-> 0]
    /\ runs = 0
    /\ resumed = FALSE
    /\ processed = {}
    /\ unit_status = [g \in Geohashes |-> "none"]
    /\ InitNoMigration

NextKyoto ==
    \E p \in KProcs :
       \/ \E resume, confirm \in BOOLEAN : KMain(p, resume, confirm)
       \/ KNextUnit(p)
       \/ KFinish(p)
       \/ SaveGridCellSelect(p)
       \/ SaveGridCellInsert(p)
       \/ KFetch(p)
       \/ SavePoisSelect(p)
       \/ SavePoisUpsert(p)
       \/ SavePoisInsert(p)
       \/ KSaveProgress(p)
       \/ KCrash(p)

SpecKyoto == InitKyoto /\ [][NextKyoto]_vars

(***************************************************************************)
(* The resumable job on its own, interrupted and started again             *)
(***************************************************************************)
InitJob ==
    /\ grid_cells \in {s \in StartCells : Cardinality(s) <= 1}
    /\ next_cell_id = Cardinality(grid_cells) + 1
    /\ sequential = TRUE
    /\ InitLocals
    /\ InitNoMerge
    /\ api_places = {<<"p1", "cafe">>}
    /\ batch = [p \in Procs |-> <<>>]
    /\ saves = <<>>
    /\ written = [i \in PlaceIds |-> {}]
    /\ geohash_list = <<>>
    /\ chunk_size = 1
    /\ plan3_progress = NoProgress
    /\ chunk_index = [p \in Procs |-> 0]
    /\ geohash_in_chunk = [p \in Procs |-> 0]
    /\ runs = 0
    /\ resumed = FALSE
    /\ processed = {}
    /\ unit_status = [g \in Geohashes |-> "none"]
    /\ progress_file = NoFile
    /\ all_geohashes \in {<<"g1", "g2">>, <<"g2", "g1">>}
    /\ remaining_geohashes = <<>>
    /\ processed_geohashes = {}
    /\ unit_index = 0
    /\ loaded = {}
    /\ fetched = {}
    /\ upserted = {}

NextJob ==
    \E p \in MProcs :
       \/ \E restart \in BOOLEAN : MMain(p, restart)
       \/ EnsureSelectAll(p)
       \/ EnsureUpsert(p)
       \/ EnsureSelectIn(p)
       \/ MAfterEnsure(p)
       \/ MFetch(p)
       \/ MVerify(p)
       \/ MUpsert(p)
       \/ MRecord(p)
       \/ \E cleanup \in BOOLEAN : MFinish(p, cleanup)
       \/ MInterrupt(p)
       \/ MCrash(p)

SpecJob == InitJob /\ [][NextJob]_vars

\* the job started on the progress file an earlier run left behind, which
\* may have run over another area (TARGET_BOUNDING_BOXES is edited between
\* runs, PROGRESS_FILE is one name), and resumed ('y') each time it has
\* ended; store calls fail MaxFaults times
InitJobResume ==
    /\ grid_cells \in {s \in StartCells : Cardinality(s) <= 1}
    /\ next_cell_id = Cardinality(grid_cells) + 1
    /\ sequential = TRUE
    /\ InitLocals
    /\ InitNoMerge
    /\ api_places = {<<"p1", "cafe">>}
    /\ batch = [p \in Procs |-> <<>>]
    /\ saves = <<>>
    /\ written = [i \in PlaceIds |-> {}]
    /\ geohash_list = <<>>
    /\ chunk_size = 1
    /\ plan3_progress = NoProgress
    /\ chunk_index = [p \in Procs |-> 0]
    /\ geohash_in_chunk = [p \in Procs |-> 0]
    /\ runs = 0
    /\ resumed = FALSE
    /\ processed = {}
    /\ unit_status = [g \in Geohashes |-> "none"]
    /\ all_geohashes \in {<<"g1">>, <<"g1", "g2">>, <<"g2", "g1">>}
    /\ progress_file \in
          {NoFile} \cup {SavedProgress(done) : done \in SUBSET Geohashes}
    /\ remaining_geohashes = <<>>
    /\ processed_geohashes = {}
    /\ unit_index = 0
    /\ loaded = {}
    /\ fetched = {}
    /\ upserted = {}

NextJobResume ==
    \E p \in MProcs :
       \/ MMain(p, TRUE)
       \/ EnsureSelectAll(p)
       \/ EnsureUpsert(p)
       \/ EnsureSelectIn(p)
       \/ MAfterEnsure(p)
       \/ MFetch(p)
       \/ MVerify(p)
       \/ MUpsert(p)
       \/ MRecord(p)
       \/ \E cleanup \in BOOLEAN : MFinish(p, cleanup)

\* the script is started again whenever it has ended, and runs on when it
\* is not interrupted
SpecJobResume ==
    InitJobResume /\ [][NextJobResume]_vars /\ WF_vars(NextJobResume)

\* the resumed job when it can also be interrupted and killed
NextJobResumeKill ==
    \/ NextJobResume
    \/ \E p \in MProcs : MInterrupt(p) \/ MCrash(p)

SpecJobResumeKill == InitJobResume /\ [][NextJobResumeKill]_vars

\* the same job against an API that may cap the bulk lookup
NextJobCapped == NextJob \/ \E p \in MProcs : EnsureSelectInCapped(p)

SpecJobCapped == InitJob /\ [][NextJobCapped]_vars

(***************************************************************************)
(* Sequential ingestion: direct saves and the resumable job, one at a time *)
(***************************************************************************)
InitIngest ==
    /\ grid_cells = {[id |-> 1, geohash |-> "g1", created_at |-> 0]}
    /\ next_cell_id = 2
    /\ sequential = TRUE
    /\ InitLocals
    /\ InitNoMerge
    /\ api_places = {<<"p1", "cafe">>, <<"p1", "park">>}
    /\ batch = [p \in Procs |-> <<>>]
    /\ saves = <<>>
    /\ written = [i \in PlaceIds |-> {}]
    /\ geohash_list = <<>>
    /\ chunk_size = 1
    /\ plan3_progress = NoProgress
    /\ chunk_index = [p \in Procs |-> 0]
    /\ geohash_in_chunk = [p \in Procs |-> 0]
    /\ runs = 0
    /\ resumed = FALSE
    /\ processed = {}
    /\ unit_status = [g \in Geohashes |-> "none"]
    /\ progress_file = NoFile
    /\ all_geohashes = <<"g1">>
    /\ remaining_geohashes = <<>>
    /\ processed_geohashes = {}
    /\ unit_index = 0
    /\ loaded = {}
    /\ fetched = {}
    /\ upserted = {}

NextSave ==
    \E p \in {"w1"} :
       \/ \E poi_list \in SavePayloads : CallSavePois(p, poi_list)
       \/ SavePoisSelect(p)
       \/ SavePoisUpsert(p)
       \/ SavePoisInsert(p)
       \/ SavePoisReturns(p)

NextIngest == NextSave \/ NextJob

SpecIngest == InitIngest /\ [][NextIngest]_vars

\* the same, the search returning a place under one name or another
InitRefresh ==
    /\ grid_cells = {[id |-> 1, geohash |-> "g1", created_at |-> 0]}
    /\ next_cell_id = 2
    /\ sequential = TRUE
    /\ pois = {}
    /\ faults = 0
    /\ pc = [p \in Procs |-> "idle"]
    /\ cur_geohash = [p \in Procs |-> "g1"]
    /\ ret = [p \in Procs |-> Falsy]
    /\ wanted = [p \in Procs |-> {}]
    /\ geohash_to_id_map = [p \in Procs |-> NoMap]
    /\ op_err = [p \in Procs |-> FALSE]
    /\ before = [p \in Procs |-> ZeroCount]
    /\ calls = <<>>
    /\ InitNoRepair
    /\ InitNoFilter
    /\ api_names = {"n1", "n2"}
    /\ csv_rows = <<>>
    /\ csv_index = 0
    /\ next_uuid = 0
    /\ after_upload = NoSnapshot
    /\ TEST_MODE = FALSE
    /\ totals = NoTotals
    /\ InitNoMerge
    /\ api_places = {<<"p1", "cafe">>}
    /\ batch = [p \in Procs |-> <<>>]
    /\ saves = <<>>
    /\ written = [i \in PlaceIds |-> {}]
    /\ geohash_list = <<>>
    /\ chunk_size = 1
    /\ plan3_progress = NoProgress
    /\ chunk_index = [p \in Procs |-> 0]
    /\ geohash_in_chunk = [p \in Procs |-> 0]
    /\ runs = 0
    /\ resumed = FALSE
    /\ processed = {}
    /\ unit_status = [g \in Geohashes |-> "none"]
    /\ progress_file = NoFile
    /\ all_geohashes = <<"g1">>
    /\ remaining_geohashes = <<>>
    /\ processed_geohashes = {}
    /\ unit_index = 0
    /\ loaded = {}
    /\ fetched = {}
    /\ upserted = {}

SpecRefresh == InitRefresh /\ [][NextIngest]_vars

(***************************************************************************)
(* Two scripts calling save_pois_to_db against one store, interleaved      *)
(***************************************************************************)
InitRace ==
    /\ grid_cells = {[id |-> 1, geohash |-> "g1", created_at |-> 0]}
    /\ next_cell_id = 2
    /\ sequential = FALSE
    /\ pois = {}
    /\ faults = 0
    /\ pc = [p \in Procs |-> "idle"]
    /\ cur_geohash = [p \in Procs |-> "g1"]
    /\ ret = [p \in Procs |-> Falsy]
    /\ wanted = [p \in Procs |-> {}]
    /\ geohash_to_id_map = [p \in Procs |-> NoMap]
    /\ op_err = [p \in Procs |-> FALSE]
    /\ before = [p \in Procs |-> ZeroCount]
    /\ calls = <<>>
    /\ InitNoRepair
    /\ InitNoFilter
    /\ api_names = {"n1"}
    /\ csv_rows = <<>>
    /\ csv_index = 0
    /\ next_uuid = 0
    /\ after_upload = NoSnapshot
    /\ TEST_MODE = FALSE
    /\ totals = NoTotals
    /\ InitNoMerge
    /\ api_places = {<<"p1", "cafe">>, <<"p1", "park">>}
    /\ batch = [p \in Procs |-> <<>>]
    /\ saves = <<>>
    /\ written = [i \in PlaceIds |-> {}]
    /\ geohash_list = <<>>
    /\ chunk_size = 1
    /\ plan3_progress = NoProgress
    /\ chunk_index = [p \in Procs |-> 0]
    /\ geohash_in_chunk = [p \in Procs |-> 0]
    /\ runs = 0
    /\ resumed = FALSE
    /\ processed = {}
    /\ unit_status = [g \in Geohashes |-> "none"]
    /\ progress_file = NoFile
    /\ all_geohashes = <<"g1">>
    /\ remaining_geohashes = <<>>
    /\ processed_geohashes = {}
    /\ unit_index = 0
    /\ loaded = {}
    /\ fetched = {}
    /\ upserted = {}

NextRace ==
    \E p \in Callers :
       \/ \E poi_list \in SavePayloads : CallSavePois(p, poi_list)
       \/ SavePoisSelect(p)
       \/ SavePoisUpsert(p)
       \/ SavePoisInsert(p)
       \/ SavePoisReturns(p)

SpecRace == InitRace /\ [][NextRace]_vars

(***************************************************************************)
(* The repair on its own, from a store with duplicates                     *)
(***************************************************************************)
\* stores with n rows, ids 1..n, at least one geohash held by two rows
RepairStores ==
    UNION {{{[id |-> i, geohash |-> f[i][1], created_at |-> f[i][2]] :
                i \in 1..n} : f \in [1..n -> Geohashes \X {0, 1}]} :
           n \in 2..MaxCellId}

\* POIs of the kyoto job, each referencing one of the cells
StartPois(cells) ==
    UNION {{{[id |-> i, categories |-> <<"kafe">>, category |-> NoCategory,
              grid_cell_id |-> f[i], name |-> "n1", url |-> ""] : i \in D} :
                f \in [D -> {c.id : c \in cells}]} : D \in SUBSET PlaceIds}

InitRepair ==
    /\ grid_cells \in {s \in RepairStores : HasDuplicates(s)}
    /\ next_cell_id = Cardinality(grid_cells) + 1
    /\ pois \in StartPois(grid_cells)
    /\ faults = 0
    /\ sequential = TRUE
    /\ pc = [p \in Procs |-> "idle"]
    /\ cur_geohash = [p \in Procs |-> "g1"]
    /\ ret = [p \in Procs |-> Falsy]
    /\ wanted = [p \in Procs |-> {}]
    /\ geohash_to_id_map = [p \in Procs |-> NoMap]
    /\ op_err = [p \in Procs |-> FALSE]
    /\ before = [p \in Procs |-> ZeroCount]
    /\ calls = <<>>
    /\ InitNoRepair
    /\ InitNoUpload
    /\ InitNoMerge
    /\ InitNoJob

NextRepair ==
    \E p \in RProcs :
       \/ RScan(p)
       \/ \E answer \in {"yes", "no"} : RConfirm(p, answer)
       \/ RSelectPois(p)
       \/ RUpdatePoi(p)
       \/ RDelete(p)

SpecRepair == InitRepair /\ [][NextRepair]_vars

\* the repair with every answer the operator can give
NextRepairAnswers ==
    \E p \in RProcs :
       \/ RScan(p)
       \/ \E answer \in Answers : RConfirm(p, answer)
       \/ RSelectPois(p)
       \/ RUpdatePoi(p)
       \/ RDelete(p)

SpecRepairAnswers == InitRepair /\ [][NextRepairAnswers]_vars

\* the repair while a script saves POIs of the same places: g1 has two
\* rows, g2 one
InitRepairRace ==
    /\ grid_cells = {[id |-> 1, geohash |-> "g1", created_at |-> 0],
                     [id |-> 2, geohash |-> "g1", created_at |-> 1],
                     [id |-> 3, geohash |-> "g2", created_at |-> 1]}
    /\ next_cell_id = 4
    /\ pois \in StartPois(grid_cells)
    /\ faults = 0
    /\ sequential = FALSE
    /\ pc = [p \in Procs |-> "idle"]
    /\ cur_geohash = [p \in Procs |-> "g1"]
    /\ ret = [p \in Procs |-> Falsy]
    /\ wanted = [p \in Procs |-> {}]
    /\ geohash_to_id_map = [p \in Procs |-> NoMap]
    /\ op_err = [p \in Procs |-> FALSE]
    /\ before = [p \in Procs |-> ZeroCount]
    /\ calls = <<>>
    /\ InitNoRepair
    /\ InitNoUpload
    /\ InitNoMerge
    /\ api_places = {<<"p1", "cafe">>}
    /\ batch = [p \in Procs |-> <<>>]
    /\ saves = <<>>
    /\ written = [i \in PlaceIds |-> {}]
    /\ geohash_list = <<>>
    /\ chunk_size = 1
    /\ plan3_progress = NoProgress
    /\ chunk_index = [p \in Procs |-> 0]
    /\ geohash_in_chunk = [p \in Procs |-> 0]
    /\ runs = 0
    /\ resumed = FALSE
    /\ processed = {}
    /\ unit_status = [g \in Geohashes |-> "none"]
    /\ InitNoMigration

NextRepairRace ==
    \/ NextRepair
    \/ \E poi_list \in SavePayloads : CallSavePois("w1", poi_list)
    \/ SavePoisSelect("w1")
    \/ SavePoisUpsert("w1")
    \/ SavePoisInsert("w1")
    \/ SavePoisReturns("w1")

SpecRepairRace == InitRepairRace /\ [][NextRepairRace]_vars

\* the repair run, and run again when it has ended
NextRepairTwice ==
    \E p \in RProcs :
       \/ RScan(p)
       \/ \E answer \in {"yes", "no"} : RConfirm(p, answer)
       \/ RSelectPois(p)
       \/ RUpdatePoi(p)
       \/ RDelete(p)
       \/ RMain(p)

SpecRepairTwice == InitRepair /\ [][NextRepairTwice]_vars

\* the repair from a store with two duplicate groups
InitRepairGroups ==
    /\ grid_cells = {[id |-> 1, geohash |-> "g1", created_at |-> 0],
                     [id |-> 2, geohash |-> "g1", created_at |-> 1],
                     [id |-> 3, geohash |-> "g2", created_at |-> 0],
                     [id |-> 4, geohash |-> "g2", created_at |-> 1]}
    /\ next_cell_id = Cardinality(grid_cells) + 1
    /\ pois \in StartPois(grid_cells)
    /\ faults = 0
    /\ sequential = TRUE
    /\ pc = [p \in Procs |-> "idle"]
    /\ cur_geohash = [p \in Procs |-> "g1"]
    /\ ret = [p \in Procs |-> Falsy]
    /\ wanted = [p \in Procs |-> {}]
    /\ geohash_to_id_map = [p \in Procs |-> NoMap]
    /\ op_err = [p \in Procs |-> FALSE]
    /\ before = [p \in Procs |-> ZeroCount]
    /\ calls = <<>>
    /\ InitNoRepair
    /\ InitNoUpload
    /\ InitNoMerge
    /\ InitNoJob

SpecRepairGroups == InitRepairGroups /\ [][NextRepair]_vars

(***************************************************************************)
(* The CSV upload on its own, run again with the same file                 *)
(***************************************************************************)
InitUpload ==
    /\ grid_cells = {}
    /\ next_cell_id = 1
    /\ pois = {}
    /\ faults = 0
    /\ sequential = TRUE
    /\ pc = [p \in Procs |-> "idle"]
    /\ cur_geohash = [p \in Procs |-> "g1"]
    /\ ret = [p \in Procs |-> Falsy]
    /\ wanted = [p \in Procs |-> {}]
    /\ geohash_to_id_map = [p \in Procs |-> NoMap]
    /\ op_err = [p \in Procs |-> FALSE]
    /\ before = [p \in Procs |-> ZeroCount]
    /\ calls = <<>>
    /\ InitNoRepair
    /\ InitNoFilter
    /\ api_names = {"n1"}
    /\ csv_rows \in UNION {[1..n -> CsvRows] : n \in 1..MaxCsvRows}
    /\ csv_index = 0
    /\ next_uuid = 0
    /\ after_upload = NoSnapshot
    /\ TEST_MODE \in BOOLEAN
    /\ totals = NoTotals
    /\ InitNoMerge
    /\ InitNoJob

NextUpload ==
    \E p \in UProcs :
       \/ UMain(p)
       \/ UTestRow(p)
       \/ UCheckName(p)
       \/ UCheckUrl(p)
       \/ SaveGridCellSelect(p)
       \/ SaveGridCellInsert(p)
       \/ UInsertPoi(p)

SpecUpload == InitUpload /\ [][NextUpload]_vars

(***************************************************************************)
(* The batch of one geohash, for every small search result                 *)
(***************************************************************************)
\* what a search of 'cafe' and a search of 'park' can return
CafePlaces ==
    [place_id : {NoPlaceId, "p1", "p2"}, rating : {30, 32, 35},
     types : {<<>>, <<"cafe">>}, riverside : {FALSE}]

ParkPlaces ==
    [place_id : {NoPlaceId, "p1", "p2"}, rating : {0, 30, 32, 35},
     types : {<<>>, <<"park">>}, riverside : BOOLEAN]

InitFilter ==
    /\ grid_cells = {}
    /\ next_cell_id = 1
    /\ sequential = TRUE
    /\ pois = {}
    /\ faults = 0
    /\ pc = [p \in Procs |-> "idle"]
    /\ cur_geohash = [p \in Procs |-> "g1"]
    /\ ret = [p \in Procs |-> Falsy]
    /\ wanted = [p \in Procs |-> {}]
    /\ geohash_to_id_map = [p \in Procs |-> NoMap]
    /\ op_err = [p \in Procs |-> FALSE]
    /\ before = [p \in Procs |-> ZeroCount]
    /\ calls = <<>>
    /\ InitNoRepair
    /\ api_names = {"n1"}
    /\ csv_rows = <<>>
    /\ csv_index = 0
    /\ next_uuid = 0
    /\ after_upload = NoSnapshot
    /\ TEST_MODE = FALSE
    /\ totals = NoTotals
    /\ search_results \in
          [cafe : UNION {[1..n -> CafePlaces] : n \in 0..MaxPlaces},
           park : UNION {[1..n -> ParkPlaces] : n \in 0..1}] \ {NoResults}
    /\ filtered_batch = <<>>
    /\ fetch_calls = [p \in MProcs \cup KProcs |-> NoFetch]
    /\ InitNoMerge
    /\ InitNoJob

NextFilter == \E p \in MProcs : MBuildBatch(p)

SpecFilter == InitFilter /\ [][NextFilter]_vars

\* both jobs build their records from the same search results
NextBothFilters ==
    \/ \E p \in MProcs : MBuildBatch(p)
    \/ \E p \in KProcs : KBuildBatch(p)

SpecBothFilters == InitFilter /\ [][NextBothFilters]_vars

(***************************************************************************)
(* The place searches of one unit of either job, every request failing or  *)
(* not                                                                     *)
(***************************************************************************)
NextRetry ==
    \/ \E p \in MProcs \cup KProcs : CallFetch(p)
    \/ \E p \in MProcs :
          \E outcome \in {"ok", "RequestException", "Exception"} :
             FetchPlacesRequest(p, outcome)
    \/ \E p \in KProcs :
          \E outcome \in {"ok", "Exception"} : SearchPlacesRequest(p, outcome)

SpecRetry == InitJob /\ [][NextRetry]_vars

(***************************************************************************)
(* Everything at once: both ingestion jobs and the repair, interleaved     *)
(***************************************************************************)
Init ==
    /\ grid_cells \in {s \in StartCells : HasDuplicates(s)}
    /\ next_cell_id = Cardinality(grid_cells) + 1
    /\ sequential = FALSE
    /\ InitLocals
    /\ InitNoMerge
    /\ api_places = {<<"p1", "cafe">>}
    /\ batch = [p \in Procs |-> <<>>]
    /\ saves = <<>>
    /\ written = [i \in PlaceIds |-> {}]
    /\ geohash_list \in {<<"g1">>, <<"g2">>}
    /\ chunk_size = 1
    /\ plan3_progress = NoProgress
    /\ chunk_index = [p \in Procs |-> 0]
    /\ geohash_in_chunk = [p \in Procs |-> 0]
    /\ runs = 0
    /\ resumed = FALSE
    /\ processed = {}
    /\ unit_status = [g \in Geohashes |-> "none"]
    /\ progress_file = NoFile
    /\ all_geohashes = geohash_list
    /\ remaining_geohashes = <<>>
    /\ processed_geohashes = {}
    /\ unit_index = 0
    /\ loaded = {}
    /\ fetched = {}
    /\ upserted = {}

Next == NextKyoto \/ NextJob \/ NextRepair

Spec == Init /\ [][Next]_vars

NoDuplicateCells ==
    \A g \in Geohashes : Cardinality({c \in grid_cells : c.geohash = g}) <= 1

\* C4: every grouping, ((A,B),C) or (A,(B,C)), of every permutation of three
\* records with one identifier folds to the same category set, the union of
\* the three category lists.
UnionLaw ==
    /\ \A x, y \in seen_sets : x.categories = y.categories
    /\ \A x \in seen_sets :
          x.categories = UNION {Range(merge_in[i].categories) : i \in 1..3}

\* both groupings were folded over three records with different categories
UnionLawFolded ==
    /\ Cardinality(seen_sets) = 2
    /\ \A i, j \in 1..3 :
          i # j => Range(merge_in[i].categories) # Range(merge_in[j].categories)
    /\ fold.stage = "outer" /\ fold.ops[1] = merge_in[3]

\* C6: a run resumed from a checkpoint with completed set C over the targets
\* T searches places and writes POIs only for geohashes of T \ C, and a run
\* that gets through its loop has searched every geohash of T \ C.
ResumeSkipsCompleted ==
    LET targets == Range(all_geohashes)
    IN /\ fetched \subseteq targets \ loaded
       /\ upserted \subseteq fetched
       /\ pc["m"] = "done" => fetched = targets \ loaded

\* a run resumed with C = {g1} over T = {g1, g2} processed g2 and ended
ResumedRunDone ==
    /\ pc["m"] = "done"
    /\ loaded = {"g1"}
    /\ fetched = {"g2"}
    /\ upserted = {"g2"}

\* C7: when the chunked job was interrupted and then resumed from its saved
\* progress, every geohash of the configured list has been processed by one
\* of the runs once the resumed run is done.
NoUnitLost ==
    (pc["k"] = "done" /\ resumed) =>
        \A i \in DOMAIN geohash_list : geohash_list[i] \in processed

\* C10: a geohash that a progress file (or the completed set in memory)
\* records as processed never had a POI write of its processing fail.
CheckpointSound ==
    /\ plan3_progress.status = "running" =>
          unit_status[plan3_progress.last_processed_geohash] # "failed"
    /\ \A g \in progress_file.processed_geohashes \cup processed_geohashes :
          unit_status[g] # "failed"

\* C3: under sequential ingestion every pois row carries exactly the
\* categories its identifier was ever written with: no write drops one.
CategoriesAccumulate ==
    \A r \in pois : StoredCategories(r) = written[r.id]

\* C5: when the same payload is saved twice in a row and neither save meets
\* a store error, every identifier of the payload has exactly one row after
\* the second save, with the category set it had after the first.
UpsertIdempotent ==
    (/\ Len(saves) = 2
     /\ saves[1].done /\ saves[2].done
     /\ saves[1].ok /\ saves[2].ok
     /\ saves[1].payload = saves[2].payload) =>
        \A i \in {poi.id : poi \in Range(saves[2].payload)} :
           /\ saves[2].rows[i] = 1
           /\ saves[2].categories[i] = saves[1].categories[i]

SamePayloadSavedTwice ==
    /\ Len(saves) = 2
    /\ saves[1].done /\ saves[2].done
    /\ saves[1].ok /\ saves[2].ok
    /\ saves[1].payload = saves[2].payload
    /\ \E poi \in Range(saves[2].payload) :
          /\ "categories" \in DOMAIN poi
          /\ Cardinality(saves[2].categories[poi.id]) > 1
          /\ saves[2].rows[poi.id] = 1

\* C8: a confirmed repair that met no store error ends with one grid_cells
\* row for every geohash that had rows, and every POI that referenced a row
\* of a duplicate group references the cell the repair kept for the group.
RepairCorrect ==
    (pc["r"] = "done" /\ confirm_input = "yes" /\ ~op_err["r"]) =>
        /\ \A g \in {c.geohash : c \in at_scan.cells} :
              Cardinality(CellsByGeohash(g)) = 1
        /\ \A d \in Range(duplicates), old \in at_scan.pois :
              (\E c \in at_scan.cells :
                  c.geohash = d.geohash /\ c.id = old.grid_cell_id) =>
                 /\ PoisById(old.id) # {}
                 /\ \A r \in PoisById(old.id) : r.grid_cell_id = d.keep
                 /\ CellsById(d.keep) # {}

RepairedWithPois ==
    /\ pc["r"] = "done" /\ confirm_input = "yes" /\ ~op_err["r"]
    /\ \E d \in Range(duplicates) :
          /\ \E old \in at_scan.pois : old.grid_cell_id = d.remove
          /\ \E old \in at_scan.pois : old.grid_cell_id = d.keep

\* C9: every pois row references a grid_cells row that exists.
NoDanglingReference ==
    \A r \in pois : CellsById(r.grid_cell_id) # {}

\* C11: when the upload has run once without a store error and is run again
\* with the same CSV file, the second run ends with as many pois rows and
\* grid_cells rows as the first.
RerunAddsNoRows ==
    (pc["u"] = "done" /\ runs >= 2 /\ after_upload.taken
        /\ after_upload.clean) =>
       /\ Cardinality(pois) = after_upload.pois
       /\ Cardinality(grid_cells) = after_upload.grid_cells

\* the places a search of poi_type returned
Returned(poi_type) ==
    {search_results[poi_type][i] : i \in DOMAIN search_results[poi_type]}

\* C12: every record of the batch stems from a place whose rating is at or
\* above the threshold of the type it was fetched under, and every place
\* with an id whose rating equals that threshold exactly has a record.
RatingFilterInclusive ==
    pc["m"] = "built" =>
       /\ \A r \in Range(filtered_batch) :
             \E poi_type \in Range(SearchedTypes) :
                \E place \in Returned(poi_type) :
                   /\ place.place_id = r.id
                   /\ place.rating = r.rate
                   /\ place.rating >= MinRating(poi_type)
       /\ \A poi_type \in Range(SearchedTypes) :
             \A place \in Returned(poi_type) :
                (place.place_id # NoPlaceId
                    /\ place.rating = MinRating(poi_type)) =>
                   \E r \in Range(filtered_batch) : r.id = place.place_id

BoundaryPlacesFiltered ==
    /\ pc["m"] = "built"
    /\ \E place \in Returned("cafe") :
          /\ place.rating = 32
          /\ \A r \in Range(filtered_batch) : r.id # place.place_id
    /\ \E place \in Returned("cafe") :
          /\ place.rating = MIN_RATING
          /\ \E r \in Range(filtered_batch) :
                r.id = place.place_id /\ r.rate = MIN_RATING

\* the searched types that returned place id with a sufficient rating
ReturnedUnder(id) ==
    {poi_type \in Range(SearchedTypes) :
        \E place \in Returned(poi_type) :
           /\ place.place_id = id
           /\ place.rating >= MinRating(poi_type)}

\* C18: when the searches of several types return the same place id, the
\* batch of the unit holds one record for the id, and the record carries the
\* labels of all the types that returned it.
BatchMergesCategories ==
    pc["m"] = "built" =>
       \A i \in DOMAIN filtered_batch :
          LET r == filtered_batch[i]
          IN Cardinality(ReturnedUnder(r.id)) >= 2 =>
                /\ \A j \in DOMAIN filtered_batch :
                      filtered_batch[j].id = r.id => j = i
                /\ ReturnedUnder(r.id) \subseteq WrittenCategories(r)

\* C13: a repair run started right after a confirmed run that met no error
\* never comes to update a POI or to delete a grid cell, and the tables
\* stay as the first run left them.
RepairIdempotent ==
    (repair_run >= 2 /\ after_repair.confirmed) =>
        /\ pc["r"] \in {"idle", "done"}
        /\ grid_cells = after_repair.cells
        /\ pois = after_repair.pois

SecondRepairDone ==
    /\ repair_run = 2
    /\ after_repair.confirmed
    /\ pc["r"] = "done"
    /\ ~op_err["r"]
    /\ at_scan.cells = after_repair.cells
    /\ \E r \in pois : TRUE

\* C14: when a run of the job ends by itself, every geohash it had to do was
\* processed in it, whichever single steps failed on the way.
FailureIsolated ==
    pc["m"] \in {"done", "aborted"} =>
        Range(remaining_geohashes) \subseteq fetched

\* C15 (as stated): no step changes the name of a pois row that has one.
FirstWriterWins ==
    [][\A r \in pois : r.name # "" =>
          \A x \in pois' : x.id = r.id => x.name = r.name]_vars

\* C15: when a save has returned without a failure, every POI of its
\* payload is stored under the name the payload gave it, whatever name the
\* row had before.
LastWriterWins ==
    (saves # <<>> /\ saves[Len(saves)].done /\ saves[Len(saves)].ok) =>
        \A poi \in Range(saves[Len(saves)].payload) :
           /\ PoisById(poi.id) # {}
           /\ \A r \in PoisById(poi.id) : r.name = poi.name

NameOverwritten ==
    /\ Len(saves) = 2
    /\ saves[1].done /\ saves[1].ok
    /\ saves[2].done /\ saves[2].ok
    /\ \E old \in Range(saves[1].payload), poi \in Range(saves[2].payload) :
          /\ old.id = poi.id
          /\ old.name # "" /\ old.name # poi.name
          /\ \A r \in PoisById(poi.id) : r.name = poi.name

\* C16: no step of an ingestion job changes the grid_cell_id of a pois row
\* that exists.
GridCellIdWriteOnce ==
    [][\A r \in pois : \A x \in pois' :
          x.id = r.id => x.grid_cell_id = r.grid_cell_id]_vars

\* C17: when the callers of save_pois_to_db have all returned, the row of
\* every POI carries every category a successful write of the POI carried.
ConcurrentMergeKeepsAll ==
    (\A p \in Callers : pc[p] = "idle") =>
        \A r \in pois : written[r.id] \subseteq StoredCategories(r)

\* C19: a geohash whose grid cell could not be resolved is not the geohash
\* the progress names as processed, and is not in a completed set.
UnresolvedNotRecorded ==
    /\ plan3_progress.status = "running" =>
          unit_status[plan3_progress.last_processed_geohash] # "unresolved"
    /\ \A g \in progress_file.processed_geohashes \cup processed_geohashes :
          unit_status[g] # "unresolved"

\* C20: a geohash whose POI write failed is among the geohashes a run
\* resumed from the saved progress would process.
FailedUnitRetried ==
    /\ plan3_progress.status = "running" =>
          \A c \in 0..plan3_progress.current_chunk :
             \A g \in Range(Chunk(c)) : unit_status[g] # "failed"
    /\ progress_file.exists =>
          \A g \in Range(all_geohashes) :
             unit_status[g] = "failed" =>
                g \in Range(Remaining(all_geohashes,
                                      progress_file.processed_geohashes))

\* C21: when some POI write of a geohash failed while another POI of the
\* same geohash was written, the progress does not name the geohash as
\* processed (first run, on a store that had no POI).
PartialUnitNotRecorded ==
    (runs = 1 /\ plan3_progress.status = "running") =>
        LET geohash == plan3_progress.last_processed_geohash
        IN ~ /\ unit_status[geohash] = "failed"
             /\ \E r \in pois, c \in CellsByGeohash(geohash) :
                   r.grid_cell_id = c.id

\* C22 (as stated): a search whose every request failed has made no more
\* requests than MAX_RETRIES.
RequestsWithinCeiling ==
    \A p \in MProcs \cup KProcs :
       fetch_calls[p].failures = fetch_calls[p].requests =>
          fetch_calls[p].requests <= MAX_RETRIES

\* C22: a search of fetch_places makes at most MAX_RETRIES + 1 requests and
\* one of search_places_by_type at most MAX_RETRIES; a search that is still
\* in its loop has made fewer; and a search that returned after all its
\* requests failed returned the empty list.
RetryBounded ==
    /\ \A p \in MProcs :
          /\ fetch_calls[p].requests <= MAX_RETRIES + 1
          /\ fetch_calls[p].state = "loop" =>
                fetch_calls[p].requests <= MAX_RETRIES
    /\ \A p \in KProcs :
          /\ fetch_calls[p].requests <= MAX_RETRIES
          /\ fetch_calls[p].state = "loop" =>
                fetch_calls[p].requests < MAX_RETRIES
    /\ \A p \in MProcs \cup KProcs :
          (fetch_calls[p].state = "returned"
              /\ fetch_calls[p].failures = fetch_calls[p].requests) =>
             fetch_calls[p].places = <<>>

NextTypeAfterExhaustion ==
    /\ fetch_calls["m"].exhausted = 1
    /\ fetch_calls["m"].type_index = 2
    /\ fetch_calls["m"].state = "loop"
    /\ fetch_calls["k"].exhausted = 1
    /\ fetch_calls["k"].type_index = 2

\* C23: when the job was killed, at most one geohash whose POIs were
\* upserted in the run is missing from the progress file.
CrashLosesAtMostOne ==
    pc["m"] = "dead" =>
        Cardinality(upserted \ (IF progress_file.exists
                                THEN progress_file.processed_geohashes
                                ELSE {})) <= 1

\* C24: when the interrupt stops the job while a unit is at its POI upsert,
\* the upsert of that unit has been carried out, and the progress file
\* written on the way out holds every geohash recorded in the run.
InterruptLetsUpsertFinish ==
    [][(pc["m"] = "m_upsert" /\ pc'["m"] = "stopped") =>
          /\ cur_geohash["m"] \in upserted'
          /\ processed_geohashes \subseteq
                progress_file'.processed_geohashes]_vars

\* C25: when a job has gone through all its geohashes and ended, no
\* progress record is left for the next start to find.
CheckpointClearedWhenDone ==
    /\ pc["k"] = "done" => plan3_progress.status = "none"
    /\ (pc["m"] = "done" /\ Range(all_geohashes) \subseteq processed_geohashes)
          => ~progress_file.exists

\* the place of the row with this id in the result of the scan
ScanIndex(id) == CHOOSE i \in DOMAIN at_scan.data : at_scan.data[i].id = id

\* the row of its geohash the plan has to keep: the oldest, and among
\* rows of one age the one the scan returned first
Survivor(c) ==
    \A d \in at_scan.cells :
       (d.geohash = c.geohash /\ d.id # c.id) =>
          \/ c.created_at < d.created_at
          \/ c.created_at = d.created_at /\ ScanIndex(c.id) < ScanIndex(d.id)

\* C26: the plan made from a scan keeps, for every geohash with several
\* rows, the oldest row (the first returned among rows of one age), names
\* every other row of the geohash once for removal, and has no entry for a
\* geohash with one row.
SurvivorIsOldest ==
    at_scan.data # <<>> =>
       /\ \A i \in DOMAIN duplicates :
             \E c, d \in at_scan.cells :
                /\ c.geohash = duplicates[i].geohash
                /\ d.geohash = duplicates[i].geohash
                /\ c.id = duplicates[i].keep /\ Survivor(c)
                /\ d.id = duplicates[i].remove /\ d.id # c.id
                /\ \A j \in DOMAIN duplicates :
                      duplicates[j].remove = d.id => j = i
       /\ \A d \in at_scan.cells :
             ~Survivor(d) => \E i \in DOMAIN duplicates :
                                duplicates[i].remove = d.id

TieKeptByScanOrder ==
    /\ pc["r"] = "r_confirm"
    /\ \E i \in DOMAIN duplicates :
          \E c, d \in at_scan.cells :
             /\ c.id = duplicates[i].keep /\ d.id = duplicates[i].remove
             /\ c.created_at = d.created_at /\ c.id > d.id
    /\ \E c \in at_scan.cells :
          \A d \in at_scan.cells : d.geohash = c.geohash => d = c

\* C27: at the moment a grid cell is deleted, no pois row references it.
RepointBeforeDelete ==
    [][\A c \in grid_cells \ grid_cells' :
          \A r \in pois : r.grid_cell_id # c.id]_vars

\* C28: when the update of a POI fails while another geohash still has a
\* duplicate to remove, the repair does not end there.
RepairFailureLocal ==
    [][(pc["r"] = "r_update" /\ ~op_err["r"] /\ op_err'["r"]) =>
          ((\E i \in DOMAIN duplicates :
               /\ duplicates[i].geohash # duplicates[dup_index].geohash
               /\ CellsById(duplicates[i].remove) # {})
             => pc'["r"] # "done")]_vars

\* C29: a geohash for which the map of the run has no id is not added to
\* the completed set in that run.
UnresolvedNotCompleted ==
    pc["m"] \in {"m_loop", "m_verify", "m_upsert", "m_record"} =>
        \A g \in processed_geohashes \ loaded :
           geohash_to_id_map["m"][g] # Falsy

\* C30: whichever job built them, the records handed to the store all stem
\* from a place whose rating is at or above the threshold of a type it was
\* returned under; a place without a rating has no record.
AdmissionOnEveryPath ==
    /\ pc["m"] = "built" =>
          \A r \in Range(filtered_batch) : ReturnedUnder(r.id) # {}
    /\ pc["k"] = "built" =>
          \A r \in Range(batch["k"]) :
             /\ ReturnedUnder(r.id) # {}
             /\ r.rate # NoRate

\* the rating filter of the migration on its own, for comparison
MigrationAdmission ==
    pc["m"] = "built" =>
       \A r \in Range(filtered_batch) : ReturnedUnder(r.id) # {}
\* the progress file holds every target geohash
PersistedComplete ==
    /\ progress_file.exists
    /\ Range(all_geohashes) \subseteq progress_file.processed_geohashes

\* a run ended with every target geohash completed and the operator had
\* the progress file deleted
CompletedAndCleaned ==
    /\ pc["m"] = "done"
    /\ runs >= 1
    /\ ~progress_file.exists
    /\ Range(all_geohashes) \subseteq processed_geohashes

\* a run started on a complete progress file ends at once
FurtherRunReportsNothing ==
    [][(PersistedComplete /\ runs' = runs + 1) =>
          /\ pc'["m"] = "done"
          /\ remaining_geohashes' = <<>>
          /\ UNCHANGED <<pois, grid_cells, progress_file>>]_vars

\* C31 (as stated): a run resumed after a run that completed every target
\* geohash reports that nothing remains to process.
ResumeAfterCompletionIsIdle ==
    [][(/\ pc["m"] = "done"
        /\ Range(all_geohashes) \subseteq processed_geohashes
        /\ runs' = runs + 1) =>
          remaining_geohashes' = <<>>]_vars

\* C31: when the job is resumed each time it has ended and store calls stop
\* failing, a run eventually ends with every target geohash completed; the
\* progress file then holds them all unless the operator has it deleted at
\* the end of that run, and a run started on such a file reports that
\* nothing remains.
ResumeCompletes ==
    /\ <>(PersistedComplete \/ CompletedAndCleaned)
    /\ FurtherRunReportsNothing

\* a resumed run completed what a run with a failed unit had left
ResumedToCompletion ==
    /\ pc["m"] = "done"
    /\ runs = 2
    /\ faults >= 1
    /\ PersistedComplete
    /\ loaded # {}
    /\ fetched # {}
\* the ids of the cells the plan of the repair removes
RemoveIds == {d.remove : d \in Range(duplicates)}

\* the repair has updated a POI in this step
RepairUpdated ==
    /\ pc["r"] = "r_update"
    /\ batch'["r"] # batch["r"]
    /\ ~op_err'["r"]

\* C32: a grid cell that is deleted is one the plan removes, not one it
\* keeps, and not the only row of its geohash; an update of the repair
\* leaves every POI that does not reference a cell to remove as it is, and
\* changes nothing but grid_cell_id in the others.
RepairTouchesOnlyRedundant ==
    [][/\ \A c \in grid_cells \ grid_cells' :
             /\ c.id \in RemoveIds
             /\ \A d \in Range(duplicates) : d.keep # c.id
             /\ Cardinality(CellsByGeohash(c.geohash)) > 1
       /\ RepairUpdated =>
             \A r \in pois :
                \/ r \in pois'
                \/ /\ r.grid_cell_id \in RemoveIds
                   /\ \E keep \in CellIds :
                         [r EXCEPT !.grid_cell_id = keep] \in pois']_vars
\* C33: when the repair has ended and the answer to its question was not
\* 'yes' in any spelling of upper and lower case, both tables are as the
\* scan found them and no cell of the plan was worked on.
CancelChangesNothing ==
    (pc["r"] = "done" /\ duplicates # <<>> /\ Lower(confirm_input) # "yes") =>
        /\ grid_cells = at_scan.cells
        /\ pois = at_scan.pois
        /\ dup_index = 0
        /\ batch["r"] = <<>>

\* the operator typed 'y' while a POI referenced a cell of the plan
CancelledWithWorkPending ==
    /\ pc["r"] = "done"
    /\ confirm_input = "y"
    /\ \E d \in Range(duplicates) :
          \E r \in pois : r.grid_cell_id = d.remove
\* C34 (as stated): a geohash that was recorded without any POI is not
\* fetched by a later resumed run.
EmptyUnitNeverRefetched ==
    [][\A g \in fetched' \ fetched : unit_status[g] # "empty"]_vars

\* C34: a geohash for which no POI was found is added to the completed set;
\* every progress file that is written holds the completed set of the run;
\* and a resumed run fetches no geohash of the progress file it loaded.
EmptyUnitCheckpointed ==
    [][/\ (pc["m"] = "m_record" /\ batch["m"] = <<>> /\ pc'["m"] = "m_loop")
             => cur_geohash["m"] \in processed_geohashes'
       /\ (progress_file' # progress_file /\ progress_file'.exists)
             => progress_file'.processed_geohashes = processed_geohashes'
       /\ \A g \in fetched' \ fetched : g \notin loaded']_vars

\* a resumed run loaded a geohash that an earlier run had recorded without
\* POIs, and went on with the other one
EmptyUnitSkippedOnResume ==
    /\ runs = 2
    /\ pc["m"] = "m_record"
    /\ \E g \in loaded : unit_status[g] = "empty" /\ g \notin fetched
    /\ fetched # {}
\* C35: every progress file the job writes holds target geohashes of the
\* run only, and not more of them than total_count.
CheckpointWithinTargets ==
    [][(progress_file' # progress_file /\ progress_file'.exists) =>
          /\ progress_file'.processed_geohashes \subseteq Range(all_geohashes)
          /\ Cardinality(progress_file'.processed_geohashes)
                <= progress_file'.total_count]_vars
\* the rows of the CSV file the loop of the upload has finished
RowsDone ==
    IF pc["u"] = "done" THEN Len(csv_rows)
    ELSE IF pc["u"] \in Stopped THEN 0
    ELSE csv_index - 1

\* C36 (as stated): when the upload has ended, its three counters add up to
\* the number of rows read and added is the number of rows it inserted.
CountersMatchInserts ==
    (pc["u"] = "done" /\ runs >= 1) =>
        /\ totals.added + totals.skipped + totals.errors = Len(csv_rows)
        /\ totals.added = totals.inserted

\* C36: every row the loop has finished has incremented exactly one of the
\* three counters; outside test mode added is the number of rows the run
\* inserted, in test mode nothing is inserted.
CountersPartitionRows ==
    runs >= 1 =>
        /\ totals.added + totals.skipped + totals.errors = RowsDone
        /\ ~TEST_MODE => totals.added = totals.inserted
        /\ TEST_MODE => totals.inserted = 0

\* a run outside test mode that added one row and skipped the other
AddedAndSkipped ==
    /\ pc["u"] = "done"
    /\ ~TEST_MODE
    /\ totals.added = 1
    /\ totals.skipped = 1
    /\ totals.inserted = 1
====
